---- MODULE Spec2Model ----
(***************************************************************************)
(* Model of the FlexTail component library:                                *)
(*   - the AlertDialog focus trap (Card.tsx, AlertDialog.tsx),             *)
(*   - the class-name flattener clsx and the merger behind cn.             *)
(***************************************************************************)
EXTENDS Integers, Sequences, FiniteSets, Bags, TLC

\* ------------------------------------------------------------------------
\* Bounds
\* ------------------------------------------------------------------------
MaxActions == 2      \* longest list of AlertDialog actions
MaxArr == 2          \* longest array / argument list given to clsx
MaxKeys == 2         \* most entries of a keyed map given to clsx
MaxTokens == 3       \* longest token sequence given to cn
MaxChildren == 3     \* most children of a ButtonGroup
NumButtons == 2      \* Buttons on the page that watch the dark class
MaxTimers == 4       \* most pending timers of a CardDescription

\* ------------------------------------------------------------------------
\* AlertDialog: state
\* ------------------------------------------------------------------------
VARIABLES
    plainSelector,      \* TRUE: the copy whose selectors are "button, ..." ; FALSE: "button:not([disabled]), ..."
    actions,            \* the actions prop: sequence of [disabled, loading, isDefault]
    mounted,            \* the AlertDialog instance is mounted
    isOpen,             \* the committed isOpen prop
    onClose,            \* identity of the committed onClose prop: 1 or 2, a new function is the other one
    activeElement,      \* document.activeElement
    triggerElementRef,  \* triggerElementRef.current
    dialogRef,          \* dialogRef.current is set
    listeners,          \* keydown listeners on document: bag of captured handleClose identities
    effect,             \* the live effect closure awaiting cleanup: 0 = none, else its handleClose identity
    raf,                \* requestAnimationFrame callbacks are queued for the next frame
    openFocus,          \* history: activeElement at the last CLOSED -> OPEN transition
    trapped,            \* history: initial focus received, only key presses since
    last,               \* history: the last step taken
    pc,                 \* position of the class-name resolver run
    fnInputs,           \* the arguments of the resolver call
    fnResult            \* the strings the resolver returned

dialogVars == <<plainSelector, actions, mounted, isOpen, onClose, activeElement,
                triggerElementRef, dialogRef, listeners, effect, raf,
                openFocus, trapped, last>>

\* ------------------------------------------------------------------------
\* Page: the dark class of the document root as the Buttons of Button.tsx
\* see it, and the truncation check of CardDescription
\* ------------------------------------------------------------------------
VARIABLES
    rootClasses,        \* document.documentElement.classList
    icon,               \* per Button: the icon prop, a light/dark dual source
    buttonPhase,        \* per Button: "unmounted", "rendered" (effect not yet run), "mounted"
    darkMode,           \* per Button: the darkMode state
    observing,          \* Buttons whose MutationObserver is connected
    notified,           \* Buttons whose observer holds undelivered mutation records
    lastCheck,          \* Button: what ran checkDarkMode last (effect or observer)
    textRef,            \* CardDescription: textRef.current is set
    timers,             \* CardDescription: pending 50 ms timers
    resizeListener,     \* CardDescription: checkTruncation listens to window resize
    contentObserver,    \* CardDescription: the MutationObserver on the text is connected
    contentNotified,    \* CardDescription: that observer holds undelivered records
    overflows,          \* CardDescription: the text is taller than its box
    isTruncated,        \* CardDescription: the isTruncated state
    timerFault          \* history: a timer callback ran while textRef.current was null

darkVars == <<rootClasses, icon, buttonPhase, darkMode, observing, notified, lastCheck>>

truncVars == <<textRef, timers, resizeListener, contentObserver, contentNotified,
               overflows, isTruncated, timerFault>>

pageVars == <<darkVars, truncVars>>

ActionNames == <<"action1", "action2", "action3">>

ActionEl(i) == ActionNames[i]

OutsideEls == {"body", "trigger", "outside"}

DialogEls(acts) == {"dialog", "close"} \cup {ActionEl(i) : i \in 1..Len(acts)}

Range(s) == {s[i] : i \in 1..Len(s)}

\* Button: const isDisabled = disabled || loading; <button disabled={isDisabled}>
isDisabled(a) == a.disabled \/ a.loading

\* the dialog subtree is in the document: render returns null unless isOpen
Attached(m, o) == m /\ o

NoStep == [type |-> "init", open |-> FALSE, calls |-> 0, from |-> "body", shift |-> FALSE,
           changed |-> FALSE]

\* ------------------------------------------------------------------------
\* AlertDialog: DOM queries made by the effect
\* ------------------------------------------------------------------------

\* actions.map: isDefaultButton = action.isDefault || index === actions.length - 1
isDefaultButton(acts, i) == acts[i].isDefault \/ i = Len(acts)

\* dialogRef.current.querySelector('[data-default="true"]'): first match in document order
defaultButton(acts) ==
    IF \E i \in 1..Len(acts) : isDefaultButton(acts, i)
    THEN ActionEl(CHOOSE i \in 1..Len(acts) :
             /\ isDefaultButton(acts, i)
             /\ \A j \in 1..(i - 1) : ~isDefaultButton(acts, j))
    ELSE "null"

\* does the button selector of this copy match action i
SelectorMatches(acts, i, plain) == plain \/ ~isDisabled(acts[i])

RECURSIVE MatchedActions(_, _, _)
MatchedActions(acts, i, plain) ==
    IF i > Len(acts) THEN <<>>
    ELSE (IF SelectorMatches(acts, i, plain) THEN <<ActionEl(i)>> ELSE <<>>)
         \o MatchedActions(acts, i + 1, plain)

\* handleKeyDown: dialogRef.current.querySelectorAll('button, [href], input, ...').
\* The close button comes first in the panel and is never disabled.
focusableElements(acts, plain) == <<"close">> \o MatchedActions(acts, 1, plain)

\* requestAnimationFrame callback: querySelector("button, [href], input, select, textarea")
focusable(acts, plain) == focusableElements(acts, plain)[1]

\* focus() that also lands on an element removed from the document
CanFocusDetached(el, acts, att) ==
    CASE el \in {"trigger", "outside", "dialog", "close"} -> TRUE
      [] \E i \in 1..Len(acts) : el = ActionEl(i) ->
            ~isDisabled(acts[CHOOSE i \in 1..Len(acts) : el = ActionEl(i)])
      [] OTHER -> FALSE

\* HTMLElement.focus(): only an element that is in the document and not
\* disabled takes focus; body (no tabindex) and detached nodes do not.
CanFocus(el, acts, att) ==
    CASE el \in {"trigger", "outside"} -> TRUE
      [] el \in {"dialog", "close"} -> att
      [] \E i \in 1..Len(acts) : el = ActionEl(i) ->
            att /\ ~isDisabled(acts[CHOOSE i \in 1..Len(acts) : el = ActionEl(i)])
      [] OTHER -> FALSE

Focus(el, cur, acts, att) == IF CanFocus(el, acts, att) THEN el ELSE cur

\* requestAnimationFrame callback body: the element whose focus() is called
RafTarget(acts, plain) ==
    IF defaultButton(acts) # "null" THEN defaultButton(acts)
    ELSE IF Len(focusableElements(acts, plain)) > 0 THEN focusable(acts, plain)
    ELSE "dialog"

\* Sequential focus navigation of the browser, used when handleKeyDown does
\* not call preventDefault: the page's tabbable elements in document order.
TabOrder(acts, att) ==
    <<"trigger">>
    \o (IF att THEN <<"close">> \o MatchedActions(acts, 1, FALSE) ELSE <<>>)
    \o <<"outside">>

IndexOf(s, e) == CHOOSE i \in 1..Len(s) : s[i] = e

DefaultTab(cur, shift, acts, att) ==
    LET order == TabOrder(acts, att)
        n == Len(order)
    IN  IF cur \in Range(order)
        THEN LET k == IndexOf(order, cur)
             IN  IF shift THEN order[IF k = 1 THEN n ELSE k - 1]
                 ELSE order[IF k = n THEN 1 ELSE k + 1]
        ELSE IF cur = "dialog" /\ att
        THEN (IF shift THEN "trigger" ELSE "close")
        ELSE (IF shift THEN order[n] ELSE order[1])

\* handleKeyDown for key "Tab": st = [focus, prevented]
handleTab(st, shift, acts, plain, att, ref) ==
    LET els == focusableElements(acts, plain)
        first == els[1]
        lastEl == els[Len(els)]
    IN  IF ~ref \/ Len(els) = 0 THEN st
        ELSE IF shift
        THEN (IF st.focus = first
              THEN [focus |-> Focus(lastEl, st.focus, acts, att), prevented |-> TRUE]
              ELSE st)
        ELSE (IF st.focus = lastEl
              THEN [focus |-> Focus(first, st.focus, acts, att), prevented |-> TRUE]
              ELSE st)

\* document dispatches the event to each registered listener in turn
RECURSIVE DispatchTab(_, _, _, _, _, _, _)
DispatchTab(n, st, shift, acts, plain, att, ref) ==
    IF n = 0 THEN st
    ELSE DispatchTab(n - 1, handleTab(st, shift, acts, plain, att, ref),
                     shift, acts, plain, att, ref)

\* ------------------------------------------------------------------------
\* AlertDialog: the effect  useEffect(..., [isOpen, handleClose])
\* ------------------------------------------------------------------------

\* cleanup that leaves the listener registered
RemoveListenerNever(ls, eff) == ls

\* cleanup: document.removeEventListener("keydown", handleKeyDown)
RemoveListener(ls, eff) == IF eff = 0 THEN ls ELSE ls (-) SetToBag({eff})

\* cleanup that does not restore focus
CleanupFocusNone(eff, trig, cur, acts, att) == cur

\* cleanup: if (triggerElementRef.current) triggerElementRef.current.focus()
CleanupFocus(eff, trig, cur, acts, att) ==
    IF eff # 0 /\ trig # "null" THEN Focus(trig, cur, acts, att) ELSE cur

\* effect body without the early return  if (!isOpen) return
AddListenerAlways(ls, o, c) == ls (+) SetToBag({c})

\* effect body: document.addEventListener("keydown", handleKeyDown)
AddListener(ls, o, c) == IF o THEN ls (+) SetToBag({c}) ELSE ls

\* React removes the panel from the document when render returns null (or on
\* unmount); a focused node that is removed leaves document.activeElement on body
AfterDomUpdate(cur, acts, att) ==
    IF ~att /\ cur \in DialogEls(acts) THEN "body" ELSE cur

\* the onClose prop of a render: the same function or a new one
Prop(new) == IF new THEN 3 - onClose ELSE onClose

\* One commit of the component with props isOpen = o, onClose = c:
\* DOM update, then cleanup of the previous effect and the new effect run
\* when a dependency changed (handleClose changes exactly when onClose does).
Commit(o, c, depsChanged, kind) ==
    LET focus1 == AfterDomUpdate(activeElement, actions, o)
        focus2 == IF depsChanged
                  THEN CleanupFocus(effect, triggerElementRef, focus1, actions, o)
                  ELSE focus1
        runs == depsChanged /\ o
    IN  /\ isOpen' = o
        /\ onClose' = c
        /\ dialogRef' = (dialogRef \/ o)
        /\ activeElement' = focus2
        /\ triggerElementRef' = IF runs THEN focus2 ELSE triggerElementRef
        /\ listeners' = IF depsChanged
                        THEN AddListener(RemoveListener(listeners, effect), o, c)
                        ELSE listeners
        /\ effect' = IF depsChanged THEN (IF o THEN c ELSE 0) ELSE effect
        /\ raf' = (raf \/ runs)
        /\ trapped' = FALSE
        /\ last' = [NoStep EXCEPT !.type = kind, !.changed = depsChanged,
                                  !.from = IF o THEN "body" ELSE activeElement]

\* the parent re-renders with isOpen going from false to true
Open(c) ==
    /\ mounted /\ ~isOpen
    /\ Commit(TRUE, c, TRUE, "open")
    /\ openFocus' = activeElement
    /\ UNCHANGED <<plainSelector, actions, mounted>>

\* the parent re-renders with isOpen going from true to false
Close(c) ==
    /\ mounted /\ isOpen
    /\ Commit(FALSE, c, TRUE, "close")
    /\ UNCHANGED <<plainSelector, actions, mounted, openFocus>>

\* the parent re-renders with the same isOpen; onClose may be a new function
ReRender(c) ==
    /\ mounted
    /\ Commit(isOpen, c, c # onClose, "rerender")
    /\ UNCHANGED <<plainSelector, actions, mounted, openFocus>>

\* the parent unmounts the dialog: the panel leaves the document, the effect is cleaned up
Unmount ==
    /\ mounted
    /\ mounted' = FALSE
    /\ isOpen' = FALSE
    /\ activeElement' = CleanupFocus(effect, triggerElementRef,
                            AfterDomUpdate(activeElement, actions, FALSE), actions, FALSE)
    /\ listeners' = RemoveListener(listeners, effect)
    /\ effect' = 0
    /\ trapped' = FALSE
    /\ last' = [NoStep EXCEPT !.type = "unmount", !.open = Attached(mounted, isOpen),
                              !.from = activeElement]
    /\ UNCHANGED <<plainSelector, actions, onClose, triggerElementRef, dialogRef, raf, openFocus>>

\* the next frame: the queued callbacks run; they are the same closure over
\* dialogRef, so running several moves focus as running one does
AnimationFrame ==
    /\ raf
    /\ raf' = FALSE
    /\ activeElement' = IF dialogRef
                        THEN Focus(RafTarget(actions, plainSelector), activeElement,
                                   actions, Attached(mounted, isOpen))
                        ELSE activeElement
    /\ trapped' = (Attached(mounted, isOpen) /\ activeElement' \in DialogEls(actions))
    /\ last' = [NoStep EXCEPT !.type = "raf"]
    /\ UNCHANGED <<plainSelector, actions, mounted, isOpen, onClose, triggerElementRef,
                   dialogRef, listeners, effect, openFocus>>

\* the user presses Escape: every keydown listener calls handleClose -> onClose
KeyEscape ==
    /\ last' = [NoStep EXCEPT !.type = "Escape", !.open = Attached(mounted, isOpen),
                              !.calls = BagCardinality(listeners)]
    /\ UNCHANGED <<plainSelector, actions, mounted, isOpen, onClose, activeElement,
                   triggerElementRef, dialogRef, listeners, effect, raf,
                   openFocus, trapped>>

\* the user presses Tab or Shift+Tab: listeners first, then the browser's
\* default navigation unless a listener called preventDefault
KeyTab(shift) ==
    LET att == Attached(mounted, isOpen)
        st == DispatchTab(BagCardinality(listeners),
                          [focus |-> activeElement, prevented |-> FALSE],
                          shift, actions, plainSelector, att, dialogRef)
    IN  /\ activeElement' = IF st.prevented THEN st.focus
                            ELSE DefaultTab(st.focus, shift, actions, att)
        /\ last' = [NoStep EXCEPT !.type = "Tab", !.open = att, !.shift = shift,
                                  !.from = activeElement]
        /\ UNCHANGED <<plainSelector, actions, mounted, isOpen, onClose,
                       triggerElementRef, dialogRef, listeners, effect, raf,
                       openFocus, trapped>>

\* ------------------------------------------------------------------------
\* AlertDialog: clicks
\* ------------------------------------------------------------------------
\* the target of a click and its ancestors up to the backdrop, in bubbling order
ClickPath(target) ==
    IF target = "backdrop" THEN <<"backdrop">>
    ELSE IF target = "dialog" THEN <<"dialog", "backdrop">>
    ELSE <<target, "dialog", "backdrop">>

\* backdrop handler without the target test: number of handleClose calls
handleBackdropClickAnyTarget(target, currentTarget) == 1

\* handleBackdropClick: if (event.target === event.currentTarget) handleClose();
\* the number of handleClose calls it makes
handleBackdropClick(target, currentTarget) == IF target = currentTarget THEN 1 ELSE 0

\* calls of handleClose made by the onClick of el while the click on target bubbles
OnClickCalls(el, target) ==
    IF el = "backdrop" THEN handleBackdropClick(target, el)
    ELSE IF el = "close" THEN 1
    ELSE 0

RECURSIVE BubbleCalls(_, _)
BubbleCalls(path, target) ==
    IF Len(path) = 0 THEN 0
    ELSE OnClickCalls(path[1], target) + BubbleCalls(Tail(path), target)

\* the user clicks on target while the dialog is shown: a disabled button
\* gets no click event; the pointer may move focus to the nearest element
\* on the path that can take it, or away from the focused element
Click(target) ==
    /\ Attached(mounted, isOpen)
    /\ target \in {"backdrop"} \cup DialogEls(actions)
    /\ LET disabledButton ==
               \E i \in 1..Len(actions) : target = ActionEl(i) /\ isDisabled(actions[i])
           path == ClickPath(target)
           takers == {i \in 1..Len(path) : CanFocus(path[i], actions, TRUE)}
           pointerFocus == IF takers = {} THEN "body"
                           ELSE path[CHOOSE i \in takers : \A j \in takers : i <= j]
       IN  /\ activeElement' \in {activeElement, pointerFocus}
           /\ last' = [NoStep EXCEPT !.type = "click", !.open = TRUE, !.from = target,
                                     !.calls = IF disabledButton THEN 0
                                               ELSE BubbleCalls(path, target)]
    /\ trapped' = FALSE
    /\ UNCHANGED <<plainSelector, actions, mounted, isOpen, onClose, triggerElementRef,
                   dialogRef, listeners, effect, raf, openFocus>>

\* ------------------------------------------------------------------------
\* Class-name flattener: clsx (Card.tsx, part_000)
\* ------------------------------------------------------------------------
\* A JS string is a sequence of words and single spaces; words never touch.
SP == " "

\* ClassValue and the values of a keyed map, tagged by their JS type
str(s) == [t |-> "str", v |-> s]
num(n) == [t |-> "num", v |-> n]
bool(b) == [t |-> "bool", v |-> b]
arr(s) == [t |-> "arr", v |-> s]
obj(es) == [t |-> "obj", v |-> es]
null == [t |-> "null", v |-> 0]
undefined == [t |-> "undefined", v |-> 0]

\* !!value and filter(Boolean): JS truthiness
Truthy(x) ==
    CASE x.t = "bool" -> x.v
      [] x.t = "num" -> x.v # 0
      [] x.t = "str" -> Len(x.v) > 0
      [] x.t \in {"null", "undefined"} -> FALSE
      [] OTHER -> TRUE

\* Array.prototype.join(" ")
RECURSIVE join(_)
join(pieces) ==
    IF Len(pieces) = 0 THEN <<>>
    ELSE IF Len(pieces) = 1 THEN pieces[1]
    ELSE pieces[1] \o <<SP>> \o join(Tail(pieces))

\* array branch with the filter put before the map: input.filter(Boolean).map(clsx).join(" ")
arrayBranchFilterFirst(els, pieces) ==
    LET Keep(i) == Truthy(els[i])
        idx == SelectSeq([i \in 1..Len(els) |-> i], Keep)
    IN  join([k \in 1..Len(idx) |-> pieces[idx[k]]])

\* array branch: input.map(clsx).filter(Boolean).join(" "); pieces = input.map(clsx)
arrayBranch(els, pieces) ==
    LET NonEmpty(piece) == Truthy(str(piece))
    IN  join(SelectSeq(pieces, NonEmpty))

\* object branch without the filter: every key is emitted
objectBranchNoFilter(entries) == join([i \in 1..Len(entries) |-> entries[i].key])

\* object branch: Object.entries(input).filter(([, value]) => !!value).map(([key]) => key).join(" ")
objectBranch(entries) ==
    LET Kept(e) == Truthy(e.value)
        kept == SelectSeq(entries, Kept)
    IN  join([i \in 1..Len(kept) |-> kept[i].key])

\* a value of type function
function == [t |-> "function", v |-> 0]

RECURSIVE clsxInner(_)

\* the inner function ending in  return String(input)  instead of  return ""
clsxInnerFallbackString(input) ==
    IF input.t = "str" THEN input.v
    ELSE IF input.t = "arr"
    THEN arrayBranch(input.v, [i \in 1..Len(input.v) |-> clsxInner(input.v[i])])
    ELSE IF input.t = "obj" THEN objectBranch(input.v)
    ELSE LET String(x) ==
                 CASE x.t = "num" -> ToString(x.v)
                   [] x.t = "bool" -> IF x.v THEN "true" ELSE "false"
                   [] OTHER -> x.t
         IN  <<String(input)>>

\* the inner arrow function  const clsx = (input: ClassValue): string => ...
clsxInner(input) ==
    IF input.t = "str" THEN input.v
    ELSE IF input.t = "arr"
    THEN arrayBranch(input.v, [i \in 1..Len(input.v) |-> clsxInner(input.v[i])])
    ELSE IF input.t = "obj" THEN objectBranch(input.v)
    ELSE <<>>

\* function clsx(...inputs) { ...; return clsx(inputs); }
clsx(inputs) == clsxInner(arr(inputs))

\* the words of a string
Tokens(s) == LET IsWord(x) == x # SP IN SelectSeq(s, IsWord)

\* ------------------------------------------------------------------------
\* Merger: twMerge of the tailwind-merge package, as described in the
\* specification (section 4.2); cn composes it with clsx
\* ------------------------------------------------------------------------
\* TAILWIND_COLORS of the configuration module
TAILWIND_COLORS ==
    <<"red", "orange", "amber", "yellow", "lime", "green", "emerald", "teal", "cyan", "sky",
      "blue", "indigo", "violet", "purple", "fuchsia", "pink", "rose", "slate", "gray", "zinc",
      "neutral", "stone">>

\* the color values of the utility classes: palette color, shade, optional
\* opacity; listed for the colors that the components below put in class names
ColorValues ==
    {c \o "-" \o shade \o alpha :
        c \in {"blue", "red", "gray", "indigo", "neutral", "slate"},
        shade \in {"50", "100", "200", "300", "400", "500", "600", "700", "800", "900", "950"},
        alpha \in {"", "/20", "/40", "/50", "/60"}}
    \cup {"transparent", "black", "white", "white/40", "black/30", "[var(--btn-color)]",
          "[var(--btn-color)]/10"}

SpacingValues == {"0", "1.5", "2", "2.5", "3", "3.5", "4", "6", "8", "[1px]", "auto"}

RadiusValues == {"none", "sm", "md", "lg", "xl", "full", "[10px]"}

\* the fixed rule set: conflict group (stem) |-> the tokens that style that property
Families ==
    [s \in {"p", "px", "py", "mt", "mr", "mb", "ml", "h"} |-> {s \o "-" \o v : v \in SpacingValues}
                                                            \cup {"-" \o s \o "-[1px]"}]
    @@ [s \in {"bg"} |-> {"bg-" \o v : v \in ColorValues}]
    @@ [s \in {"text-color"} |-> {"text-" \o v : v \in ColorValues}]
    @@ [s \in {"border-color"} |-> {"border-" \o v : v \in ColorValues}]
    @@ [s \in {"ring-color"} |-> {"ring-" \o v : v \in ColorValues}]
    @@ [s \in {"font-size"} |-> {"text-xs", "text-sm", "text-base", "text-lg", "text-xl"}]
    @@ [s \in {"rounded"} |-> {"rounded-" \o v : v \in RadiusValues}]
    @@ [s \in {"rounded-l", "rounded-r", "rounded-t", "rounded-b"} |->
            {s \o "-" \o v : v \in RadiusValues}]
    @@ [s \in {"border-w"} |-> {"border", "border-0", "border-2"}]
    @@ [s \in {"border-w-r"} |-> {"border-r", "border-r-0"}]
    @@ [s \in {"border-w-b"} |-> {"border-b", "border-b-0"}]
    @@ [s \in {"shadow"} |-> {"shadow-none", "shadow-sm", "shadow-md"}]
    @@ [s \in {"ring-w"} |-> {"ring-2", "ring-4"}]
    @@ [s \in {"opacity"} |-> {"opacity-50"}]
    @@ [s \in {"z"} |-> {"z-0", "z-10"}]
    @@ [s \in {"flex-direction"} |-> {"flex-row", "flex-row-reverse", "flex-col", "flex-col-reverse"}]
    @@ [s \in {"display"} |-> {"flex", "inline-flex", "block", "inline-block", "grid", "hidden"}]

\* stems of the fixed rule set
KnownStems == DOMAIN Families

\* responsive and state prefixes
PrefixNames == {"hover", "dark", "dark:hover", "focus", "focus-visible", "disabled", "active",
                "sm", "lg"}

\* prefix |-> the recognized tokens that carry it
PrefixTokens ==
    [p \in PrefixNames |-> {p \o ":" \o b : b \in UNION {Families[s] : s \in KnownStems}}]

\* stem |-> its tokens, bare and prefixed
StemTokens ==
    [s \in KnownStems |-> Families[s] \cup {p \o ":" \o b : p \in PrefixNames, b \in Families[s]}]

HoverTokens == PrefixTokens["hover"]

\* the tokens of the rule set
KnownTokens == UNION {StemTokens[s] : s \in KnownStems}

\* recognized token |-> its prefix and its stem
CategoryKeys ==
    [tok \in KnownTokens |->
        <<IF \E p \in PrefixNames : tok \in PrefixTokens[p]
          THEN CHOOSE p \in PrefixNames : tok \in PrefixTokens[p]
          ELSE "",
          CHOOSE s \in KnownStems : tok \in StemTokens[s]>>]
    @@ <<>>

\* the responsive/state prefix before the colon
Prefix(tok) == IF tok \in KnownTokens THEN CategoryKeys[tok][1] ELSE ""

\* the category-identifying stem
Stem(tok) == IF tok \in KnownTokens THEN CategoryKeys[tok][2] ELSE tok

Recognized(tok) == tok \in KnownTokens

\* prefix + stem, the value suffix stripped
CategoryKey(tok) == <<Prefix(tok), Stem(tok)>>

\* a token survives unless a later token has its CategoryKey; keys holds the
\* CategoryKey of each recognized token and <<>> for an unrecognized one
Survives(keys, i) ==
    \/ keys[i] = <<>>
    \/ \A j \in (i + 1)..Len(keys) : keys[j] # keys[i]

mergeTokens(toks) ==
    LET keys == [i \in 1..Len(toks) |->
                    IF Recognized(toks[i]) THEN CategoryKeys[toks[i]] ELSE <<>>] \o <<>>
        Keep(i) == Survives(keys, i)
        idx == SelectSeq([i \in 1..Len(toks) |-> i], Keep)
    IN  [k \in 1..Len(idx) |-> toks[idx[k]]]

\* twMerge(classList): split on whitespace, resolve conflicts, join with one space
twMerge(s) ==
    LET kept == mergeTokens(Tokens(s))
    IN  join([k \in 1..Len(kept) |-> <<kept[k]>>])

\* cn with the merge step left out
cnNoMerge(inputs) == clsx(<<arr(inputs)>>)

\* cn merging each argument on its own: inputs.map(twMerge)
cnMergePerInput(inputs) ==
    clsx(<<arr([i \in 1..Len(inputs) |-> str(twMerge(clsx(<<inputs[i]>>)))])>>)

\* cn reading its first argument only: twMerge(clsx(inputs[0]))
cnFirstInput(inputs) ==
    twMerge(clsx(<<arr(IF Len(inputs) = 0 THEN <<>> ELSE <<inputs[1]>>)>>))

\* function cn(...inputs) { return twMerge(clsx(inputs)); }
cn(inputs) == twMerge(clsx(<<arr(inputs)>>))

\* ------------------------------------------------------------------------
\* Resolver runs
\* ------------------------------------------------------------------------
NoResult == [flat |-> <<>>, each |-> <<>>, nested |-> <<>>]

SeqsUpTo(S, n) == UNION {[1..k -> S] : k \in 0..n}

\* sequences without repeated elements
Distinct(s) == \A i, j \in 1..Len(s) : i # j => s[i] # s[j]

MapKeys == {"text-red-500", "text-blue-500", "p-2"}

\* values a caller may store in a keyed map
MapValues == {bool(TRUE), bool(FALSE), num(0), num(1), str(<<>>), str(<<"x">>), null, undefined}

Entries == {[key |-> <<k>>, value |-> v] : k \in MapKeys, v \in MapValues}

\* keyed maps: entries in insertion order, keys distinct
Maps == {es \in SeqsUpTo(Entries, MaxKeys) :
            Distinct([i \in 1..Len(es) |-> es[i].key])}

Leaves == {str(<<>>), str(<<SP>>), str(<<"p-2">>), str(<<"p-2", SP, "p-4">>), num(7), null,
           undefined, bool(FALSE), bool(TRUE), function,
           obj(<<[key |-> <<"text-red-500">>, value |-> bool(FALSE)],
                 [key |-> <<"text-blue-500">>, value |-> bool(TRUE)]>>)}

\* ClassValue trees: leaves, arrays of leaves, and arrays holding such an array
Shallow == Leaves \cup {arr(s) : s \in SeqsUpTo(Leaves, MaxArr)}

Trees == Shallow \cup {arr(<<a>>) : a \in Shallow}

\* argument lists of the flattener: one keyed map, or two trees of which one is a leaf
ClsxInputs ==
    {<<obj(es)>> : es \in Maps}
    \cup (Trees \X Leaves)
    \cup (Leaves \X Trees)

MergeTokens == {"p-2", "p-4", "hover:p-2", "bg-red-500", "bg-blue-500", "hover:bg-red-500",
                "custom-a", "custom-b"}

CnInputs == SeqsUpTo({str(<<tok>>) : tok \in MergeTokens}, MaxTokens)

\* strings as callers write them: bare tokens, tokens with surrounding and
\* repeated whitespace, blank and empty strings
SpacedStrings == {str(<<"p-2">>), str(<<"custom-a">>), str(<<SP, "p-4", SP>>),
                  str(<<"custom-a", SP, SP, "bg-red-500">>), str(<<SP, SP>>), str(<<>>)}

ResolverInputs == SeqsUpTo(SpacedStrings, MaxTokens)

resolverVars == <<pc, fnInputs, fnResult>>

vars == <<dialogVars, resolverVars, pageVars>>

\* clsx(a, b) and clsx(a), clsx(b) one by one
CallClsx ==
    /\ pc = "clsx"
    /\ fnResult' = [fnResult EXCEPT
                      !.flat = clsx(fnInputs),
                      !.each = [i \in 1..Len(fnInputs) |-> clsx(<<fnInputs[i]>>)]]
    /\ pc' = "flat"
    /\ UNCHANGED <<fnInputs, dialogVars, pageVars>>

\* clsx(clsx(a), clsx(b))
CallClsxNested ==
    /\ pc = "flat"
    /\ fnResult' = [fnResult EXCEPT
                      !.nested = clsx([i \in 1..Len(fnInputs) |-> str(fnResult.each[i])])]
    /\ pc' = "nested"
    /\ UNCHANGED <<fnInputs, dialogVars, pageVars>>

\* cn(t1, ..., tn)
CallCn ==
    /\ pc = "cn"
    /\ fnResult' = [fnResult EXCEPT !.flat = cn(fnInputs)]
    /\ pc' = "merged"
    /\ UNCHANGED <<fnInputs, dialogVars, pageVars>>

\* cn(cn(t1, ..., tn))
CallCnAgain ==
    /\ pc = "merged"
    /\ fnResult' = [fnResult EXCEPT !.nested = cn(<<str(fnResult.flat)>>)]
    /\ pc' = "remerged"
    /\ UNCHANGED <<fnInputs, dialogVars, pageVars>>

\* ------------------------------------------------------------------------
\* Shared utilities (part_002) and the grouped Button of Button.tsx
\* ------------------------------------------------------------------------
\* a string literal of space-separated class names
words(toks) == join([i \in 1..Len(toks) |-> <<toks[i]>>])

\* a plain object
object(r) == [t |-> "object", v |-> r]

\* an exception thrown by the evaluation
TypeError == [t |-> "throw", v |-> "TypeError"]

\* names every object inherits from Object.prototype
ObjectPrototypeKeys == {"constructor", "toString", "valueOf", "hasOwnProperty"}

\* table[key] on an object literal: own property, inherited member, or undefined
Get(table, key) ==
    IF key \in DOMAIN table THEN table[key]
    ELSE IF key \in ObjectPrototypeKeys THEN function
    ELSE undefined

\* a || b
Or(a, b) == IF Truthy(a) THEN a ELSE b

\* the clsx package, as the specification describes the flattener (section 4.1):
\* strings pass through, numbers are coerced, sequences and maps are flattened
RECURSIVE clsxPackageInner(_)
clsxPackageInner(input) ==
    IF input.t = "str" THEN input.v
    ELSE IF input.t = "num" THEN (IF Truthy(input) THEN <<ToString(input.v)>> ELSE <<>>)
    ELSE IF input.t = "arr"
    THEN arrayBranch(input.v, [i \in 1..Len(input.v) |-> clsxPackageInner(input.v[i])])
    ELSE IF input.t = "obj" THEN objectBranch(input.v)
    ELSE <<>>

clsxPackage(inputs) == clsxPackageInner(arr(inputs))

\* export function cn(...inputs) { return twMerge(clsx(inputs)); }  (part_002)
cnShared(inputs) == twMerge(clsxPackage(<<arr(inputs)>>))

baseStyles ==
    words(<<"inline-flex", "items-center", "justify-center", "font-medium", "transition-all",
            "duration-200", "focus:outline-none", "focus:ring-4", "focus:ring-offset-2",
            "focus:ring-opacity-50", "disabled:opacity-50", "disabled:pointer-events-none">>)

shapeStyles ==
    [squircle |-> str(words(<<"rounded-xl">>)),
     circle |-> str(words(<<"rounded-full", "aspect-square">>)),
     square |-> str(words(<<"rounded-lg">>))]

buttonSizeStyles ==
    [sm |-> str(words(<<"px-3", "py-1.5", "text-sm">>)),
     md |-> str(words(<<"px-4", "py-2", "text-base">>)),
     lg |-> str(words(<<"px-6", "py-3", "text-lg">>))]

COLOR_MAPS ==
    [c \in {"blue", "red", "green", "yellow"} |->
        object([primaryBg |-> str(words(<<"bg-" \o c \o "-600">>)),
                hoverPrimaryBg |-> str(words(<<"hover:bg-" \o c \o "-700">>)),
                secondaryBg |-> str(words(<<"bg-" \o c \o "-100", "dark:bg-" \o c \o "-900/50">>)),
                hoverSecondaryBg |-> str(words(<<"hover:bg-" \o c \o "-200",
                                                 "dark:hover:bg-" \o c \o "-800/50">>)),
                text |-> str(words(<<"text-" \o c \o "-600", "dark:text-" \o c \o "-300">>)),
                focusRing |-> str(words(<<"focus:ring-" \o c \o "-500">>))])]
    @@ [c \in {"gray"} |->
        object([primaryBg |-> str(words(<<"bg-gray-700">>)),
                hoverPrimaryBg |-> str(words(<<"hover:bg-gray-800">>)),
                secondaryBg |-> str(words(<<"bg-gray-200", "dark:bg-gray-700/50">>)),
                hoverSecondaryBg |-> str(words(<<"hover:bg-gray-300", "dark:hover:bg-gray-600/50">>)),
                text |-> str(words(<<"text-gray-700", "dark:text-gray-200">>)),
                focusRing |-> str(words(<<"focus:ring-gray-400">>))])]

\* colors.name, for colors = COLOR_MAPS[color]
Member(colors, name) ==
    IF colors.t = "object" THEN colors.v[name] ELSE undefined

\* getButtonClasses(variant, color, type, isDisabled) of the shared utilities
getButtonClasses(variant, color, type, buttonDisabled) ==
    IF buttonDisabled
    THEN str(words(<<"bg-gray-200", "text-gray-400", "dark:bg-gray-700", "dark:text-gray-500",
                     "cursor-not-allowed", "shadow-none">>))
    ELSE LET colors == Get(COLOR_MAPS, color)
         IN  IF variant \in {"primary", "secondary", "ghost", "link"} /\ colors = undefined
             THEN TypeError
             ELSE CASE variant = "primary" ->
                    str(cnShared(<<Member(colors, "primaryBg"), Member(colors, "hoverPrimaryBg"),
                                   str(words(<<"text-white", "shadow-md", "shadow-black/10">>)),
                                   Member(colors, "focusRing")>>))
               [] variant = "secondary" ->
                    str(cnShared(<<Member(colors, "secondaryBg"), Member(colors, "hoverSecondaryBg"),
                                   Member(colors, "text"),
                                   str(words(<<"border", "border-transparent">>)),
                                   Member(colors, "focusRing")>>))
               [] variant = "ghost" ->
                    str(cnShared(<<str(words(<<"bg-transparent", "hover:bg-gray-50",
                                               "dark:hover:bg-gray-800">>)),
                                   Member(colors, "text"),
                                   str(words(<<"border", "border-transparent">>)),
                                   Member(colors, "focusRing")>>))
               [] variant = "link" ->
                    str(cnShared(<<str(words(<<"bg-transparent">>)), Member(colors, "text"),
                                   str(words(<<"hover:underline">>)),
                                   str(words(<<"p-0", "shadow-none">>)),
                                   Member(colors, "focusRing")>>))
               [] OTHER -> str(<<>>)

\* Button.tsx: isFullyRounded
isFullyRounded(variant, ctx) ==
    \/ ctx.groupPosition = "single"
    \/ variant = "ghost"
    \/ variant = "link"
    \/ ~ctx.isGrouped

\* the grouped shape class with the separator border on every position
groupedShapeClassBorderAlways(shape, groupPosition) ==
    LET side == IF groupPosition = "first" THEN "rounded-l"
                ELSE IF groupPosition = "last" THEN "rounded-r" ELSE ""
        roundedClass ==
            IF side = "" THEN "rounded-none"
            ELSE IF shape = "circle" THEN side \o "-full"
            ELSE IF shape = "squircle" THEN side \o "-xl"
            ELSE side \o "-lg"
    IN  cnShared(<<str(words(<<"border-r", "border-white/40", "dark:border-black/30">>)),
                   str(<<roundedClass>>)>>)

\* Button.tsx: the shape class of a grouped button that is not fully rounded
groupedShapeClass(shape, groupPosition) ==
    LET side == IF groupPosition = "first" THEN "rounded-l"
                ELSE IF groupPosition = "last" THEN "rounded-r" ELSE ""
        roundedClass ==
            IF side = "" THEN "rounded-none"
            ELSE IF shape = "circle" THEN side \o "-full"
            ELSE IF shape = "squircle" THEN side \o "-xl"
            ELSE side \o "-lg"
    IN  cnShared(<<IF groupPosition # "last"
                   THEN str(words(<<"border-r", "border-white/40", "dark:border-black/30">>))
                   ELSE bool(FALSE),
                   str(<<roundedClass>>)>>)

\* Button.tsx: finalClassName of a Button under the context ctx
finalClassName(props, ctx) ==
    LET variantClass == getButtonClasses(props.variant, props.color, props.type,
                                         props.disabled \/ props.loading)
        buttonSizeClass == Or(Get(buttonSizeStyles, props.size), buttonSizeStyles.md)
        shapeClass ==
            IF ctx.isGrouped /\ ~isFullyRounded(props.variant, ctx)
            THEN str(groupedShapeClass(props.shape, ctx.groupPosition))
            ELSE Get(shapeStyles, props.shape)
    IN  IF variantClass = TypeError THEN TypeError
        ELSE str(cnShared(<<str(baseStyles), variantClass, shapeClass, str(props.className),
                            buttonSizeClass>>))

\* Button.tsx ButtonGroup: the position given to the child at index of length
groupPosition(index, length) ==
    IF length = 1 THEN "single"
    ELSE IF index = 0 THEN "first"
    ELSE IF index = length - 1 THEN "last"
    ELSE "middle"

\* Alert.tsx ButtonGroup: the position given to the child at index of length
position(index, length) ==
    IF index = 0 THEN "first"
    ELSE IF index = length - 1 THEN "last"
    ELSE "middle"

\* children of a group: Buttons with their props, other elements, text nodes
ButtonVariants == {"primary", "secondary", "ghost", "link"}

ButtonShapes == {"squircle", "circle", "square"}

GroupChildren ==
    [type : {"Button"}, variant : ButtonVariants, shape : ButtonShapes]
    \cup [type : {"div", "text"}, variant : {"primary"}, shape : {"squircle"}]

\* the props of a Button child, defaults filled in
ButtonProps(child, disabled) ==
    [variant |-> child.variant, shape |-> child.shape, loading |-> FALSE, color |-> "blue",
     disabled |-> disabled, className |-> <<>>, size |-> "md", type |-> "default"]

\* <ButtonGroup> of Button.tsx rendering its children
RenderButtonGroup ==
    /\ pc = "group"
    /\ fnInputs.component = "Button.tsx"
    /\ LET IsButton(child) == child.type = "Button"
           buttons == SelectSeq(fnInputs.children, IsButton)
           positions == [i \in 1..Len(buttons) |-> groupPosition(i - 1, Len(buttons))]
       IN  fnResult' =
               [positions |-> positions,
                classes |-> [i \in 1..Len(buttons) |->
                               finalClassName(ButtonProps(buttons[i], fnInputs.disabled),
                                              [isGrouped |-> TRUE,
                                               groupPosition |-> positions[i]])]]
    /\ pc' = "rendered"
    /\ UNCHANGED <<fnInputs, dialogVars, pageVars>>

\* <ButtonGroup> of Alert.tsx handing each valid element its position
RenderAlertButtonGroup ==
    /\ pc = "group"
    /\ fnInputs.component = "Alert.tsx"
    /\ LET isValidElement(child) == child.type # "text"
           childrenArray == SelectSeq(fnInputs.children, isValidElement)
       IN  fnResult' =
               [positions |-> [i \in 1..Len(childrenArray) |->
                                 position(i - 1, Len(childrenArray))],
                classes |-> <<>>]
    /\ pc' = "rendered"
    /\ UNCHANGED <<fnInputs, dialogVars, pageVars>>

\* ------------------------------------------------------------------------
\* Configuration module (FlexTail-config.ts) and the context-driven Button
\* and ButtonGroup of part_001; an absent string prop is the empty string
\* ------------------------------------------------------------------------
\* export function cn(...inputs) { return twMerge(clsx(inputs)); }  (FlexTail-config.ts)
cnConfig(inputs) == twMerge(clsxPackage(<<arr(inputs)>>))

ROUNDED_VALUES ==
    [none |-> str(<<"rounded-none">>), sm |-> str(<<"rounded-sm">>), md |-> str(<<"rounded-md">>),
     lg |-> str(<<"rounded-lg">>), full |-> str(<<"rounded-full">>)]

\* the variants table of getColorClass for the palette color c
variants(c) ==
    [primary |-> str(words(<<"bg-" \o c \o "-600", "text-white", "hover:bg-" \o c \o "-700",
                             "dark:bg-" \o c \o "-500", "dark:hover:bg-" \o c \o "-400",
                             "shadow-sm">>)),
     secondary |-> str(words(<<"bg-" \o c \o "-100", "text-" \o c \o "-900",
                               "hover:bg-" \o c \o "-200", "dark:bg-" \o c \o "-900/40",
                               "dark:text-" \o c \o "-100", "dark:hover:bg-" \o c \o "-900/60">>)),
     tertiary |-> str(words(<<"bg-" \o c \o "-50", "text-" \o c \o "-700",
                              "hover:bg-" \o c \o "-100", "dark:bg-" \o c \o "-900/20",
                              "dark:text-" \o c \o "-200">>)),
     outline |-> str(words(<<"border-2", "border-" \o c \o "-500", "text-" \o c \o "-600",
                             "hover:bg-" \o c \o "-50", "dark:border-" \o c \o "-400",
                             "dark:text-" \o c \o "-400", "dark:hover:bg-" \o c \o "-950">>)),
     ghost |-> str(words(<<"text-" \o c \o "-600", "hover:bg-" \o c \o "-50",
                           "dark:text-" \o c \o "-400", "dark:hover:bg-" \o c \o "-900/50">>)),
     link |-> str(words(<<"text-" \o c \o "-600", "underline-offset-4", "hover:underline",
                          "decoration-" \o c \o "-600", "p-0", "h-auto",
                          "dark:text-" \o c \o "-400">>)),
     grayscale |-> str(words(<<"bg-gray-200", "text-gray-800", "hover:bg-gray-300",
                               "dark:bg-gray-800", "dark:text-gray-200",
                               "dark:hover:bg-gray-700">>)),
     binary |-> str(words(<<"bg-black", "text-white", "hover:bg-neutral-800", "dark:bg-white",
                            "dark:text-black", "dark:hover:bg-neutral-200">>))]

\* getColorClass(color, variant)
getColorClass(color, variant) ==
    LET isTailwind == color \in Range(TAILWIND_COLORS)
    IN  IF ~isTailwind
        THEN [style |-> {<<"--btn-color", color>>},
              className |->
                  IF variant = "outline"
                  THEN str(words(<<"border-[var(--btn-color)]", "text-[var(--btn-color)]">>))
                  ELSE IF variant = "ghost"
                  THEN str(words(<<"text-[var(--btn-color)]", "hover:bg-[var(--btn-color)]/10">>))
                  ELSE IF variant = "link"
                  THEN str(words(<<"text-[var(--btn-color)]", "decoration-[var(--btn-color)]">>))
                  ELSE str(words(<<"bg-[var(--btn-color)]", "text-white">>))]
        ELSE [style |-> {},
              className |-> Or(Get(variants(color), variant), variants(color).primary)]

PRESETS ==
    [submit |-> [color |-> "emerald", variant |-> "primary", iconPosition |-> "",
                 disabled |-> FALSE],
     cancel |-> [color |-> "slate", variant |-> "ghost", iconPosition |-> "",
                 disabled |-> FALSE],
     delete |-> [color |-> "rose", variant |-> "primary", iconPosition |-> "",
                 disabled |-> FALSE],
     next |-> [color |-> "blue", variant |-> "secondary", iconPosition |-> "right",
               disabled |-> FALSE],
     loading |-> [color |-> "indigo", variant |-> "secondary", iconPosition |-> "",
                  disabled |-> TRUE]]

\* baseRadiusClass.replace("rounded-", "")
radiusSuffix(baseRadiusClass) ==
    LET cut == {x \in RadiusValues : baseRadiusClass = "rounded-" \o x}
    IN  IF cut = {} THEN baseRadiusClass ELSE CHOOSE x \in cut : TRUE

\* part_001 Button: radiusClass
radiusClass(baseRadiusClass, ctx) ==
    LET isVertical == ctx.groupDirection = "vertical"
        baseReset == "rounded-none"
    IN  IF ~ctx.isGrouped THEN <<baseRadiusClass>>
        ELSE IF ctx.groupPosition = "middle" THEN <<baseReset>>
        ELSE IF ctx.groupPosition = "first"
        THEN (IF isVertical
              THEN words(<<baseReset, "rounded-t-" \o radiusSuffix(baseRadiusClass)>>)
              ELSE words(<<baseReset, "rounded-l-" \o radiusSuffix(baseRadiusClass)>>))
        ELSE IF ctx.groupPosition = "last"
        THEN (IF isVertical
              THEN words(<<baseReset, "rounded-b-" \o radiusSuffix(baseRadiusClass)>>)
              ELSE words(<<baseReset, "rounded-r-" \o radiusSuffix(baseRadiusClass)>>))
        ELSE <<baseReset>>

\* part_001 Button: groupSpacing
groupSpacing(ctx) ==
    LET isVertical == ctx.groupDirection = "vertical"
    IN  IF ~ctx.isGrouped THEN <<>>
        ELSE IF ctx.groupPosition = "middle"
        THEN (IF isVertical THEN <<"-mt-[1px]">> ELSE <<"-ml-[1px]">>)
        ELSE IF ctx.groupPosition = "first"
        THEN (IF isVertical THEN words(<<"mb-0", "border-b-0">>)
              ELSE words(<<"mr-0", "border-r-0">>))
        ELSE <<>>

\* part_001 Button: computedClassName under the context ctx
computedClassName(props, ctx) ==
    LET hasPreset == props.preset \in DOMAIN PRESETS
        presetConfig(name) == IF hasPreset THEN PRESETS[props.preset][name] ELSE ""
        OrStr(a, b) == IF a # "" THEN a ELSE b
        baseColor == OrStr(OrStr(presetConfig("color"), ctx.groupColor), props.color)
        baseVariant == OrStr(OrStr(presetConfig("variant"), ctx.groupVariant), props.variant)
        baseActiveColor == OrStr(ctx.groupActiveColor, props.activeColor)
        isActiveState == props.active /\ ctx.isGrouped
        finalColor == IF isActiveState /\ baseActiveColor # "" THEN baseActiveColor ELSE baseColor
        finalVariant == IF isActiveState /\ baseVariant \notin {"binary", "grayscale"}
                        THEN "primary" ELSE baseVariant
        finalIconPos == OrStr(presetConfig("iconPosition"), props.iconPosition)
        colorClasses == getColorClass(finalColor, finalVariant).className
        effectiveRadius == IF ctx.isGrouped THEN ctx.groupRadius ELSE props.radius
        fromTable == Get(ROUNDED_VALUES, effectiveRadius)
        baseRadiusClass == IF fromTable.t = "str" THEN fromTable.v[1]
                           ELSE "rounded-[" \o effectiveRadius \o "]"
        flexDirection == IF finalIconPos = "top" THEN "flex-col"
                         ELSE IF finalIconPos = "bottom" THEN "flex-col-reverse"
                         ELSE IF finalIconPos = "right" THEN "flex-row-reverse"
                         ELSE "flex-row"
    IN  IF \/ props.preset # "" /\ ~hasPreset /\ props.preset \notin ObjectPrototypeKeys
           \/ fromTable = function /\ ctx.isGrouped
        THEN TypeError
        ELSE str(cnConfig(<<
                str(words(<<"inline-flex", "items-center", "justify-center", "font-medium",
                            "transition-all", "duration-300", "active:scale-[0.98]",
                            "disabled:pointer-events-none", "disabled:opacity-50",
                            "focus-visible:ring-2", "focus-visible:ring-offset-2",
                            "focus-visible:outline-none", "relative">>)),
                str(words(<<"px-3", "py-2", "text-sm", "sm:px-4", "sm:py-2.5", "sm:text-base",
                            "lg:px-6", "lg:py-3.5", "lg:text-lg">>)),
                IF fromTable = function THEN function ELSE str(radiusClass(baseRadiusClass, ctx)),
                IF props.disabled
                THEN str(words(<<"bg-neutral-200", "text-neutral-400", "border-neutral-200",
                                 "dark:bg-neutral-800", "dark:text-neutral-600",
                                 "dark:border-neutral-800", "shadow-none">>))
                ELSE colorClasses,
                str(groupSpacing(ctx)),
                str(<<flexDirection>>),
                str(words(<<"gap-1.5", "sm:gap-2">>)),
                IF isActiveState
                THEN str(words(<<"z-10", "relative", "ring-2", "ring-offset-1",
                                 "ring-transparent">>))
                ELSE IF ctx.isGrouped THEN str(<<"z-0">>) ELSE str(<<>>),
                props.className>>))

\* part_001 ButtonGroup: the position given to the child at index of length
groupPositionOfChild(index, length) ==
    IF index = 0 THEN "first"
    ELSE IF index = length - 1 THEN "last"
    ELSE "middle"

\* the props of a part_001 Button child, defaults filled in
ContextButtonProps(child, disabled) ==
    [color |-> "indigo", variant |-> child.variant, disabled |-> disabled, radius |-> "md",
     active |-> FALSE, activeColor |-> "", iconPosition |-> "left", preset |-> "",
     className |-> undefined]

\* <ButtonGroup> of part_001 rendering its children
RenderContextGroup ==
    /\ pc = "group"
    /\ fnInputs.component = "part_001"
    /\ LET isValidElement(child) == child.type # "text"
           childrenArray == SelectSeq(fnInputs.children, isValidElement)
           positions == [i \in 1..Len(childrenArray) |->
                           groupPositionOfChild(i - 1, Len(childrenArray))]
           Context(i) == [isGrouped |-> TRUE, groupDirection |-> fnInputs.direction,
                          groupRadius |-> fnInputs.radius, groupPosition |-> positions[i],
                          groupColor |-> "", groupVariant |-> "", groupActiveColor |-> ""]
       IN  fnResult' =
               [positions |-> positions,
                classes |-> [i \in 1..Len(childrenArray) |->
                               computedClassName(
                                   ContextButtonProps(childrenArray[i], fnInputs.disabled),
                                   Context(i))]]
    /\ pc' = "rendered"
    /\ UNCHANGED <<fnInputs, dialogVars, pageVars>>

\* children of a part_001 group: Buttons and text nodes
ContextGroupChildren ==
    [type : {"Button"}, variant : {"primary", "outline", "link"}, shape : {"squircle"}]
    \cup [type : {"text"}, variant : {"primary"}, shape : {"squircle"}]

GroupInputs ==
    [component : {"Button.tsx"}, children : SeqsUpTo(GroupChildren, MaxChildren),
     direction : {"horizontal"}, radius : {"md"}, disabled : BOOLEAN]
    \cup [component : {"Alert.tsx"},
          children : SeqsUpTo({c \in GroupChildren : c.variant = "primary" /\ c.shape = "squircle"},
                              MaxChildren),
          direction : {"horizontal", "vertical"}, radius : {"md"}, disabled : {FALSE}]
    \cup [component : {"part_001"}, children : SeqsUpTo(ContextGroupChildren, MaxChildren),
          direction : {"horizontal", "vertical"}, radius : {"none", "md", "full", "10px"},
          disabled : BOOLEAN]

\* ------------------------------------------------------------------------
\* The self-contained getButtonClasses of Card.tsx, AlertDialog.tsx and part_000
\* ------------------------------------------------------------------------
\* base, sizeClasses and shapeClasses are the same literals in the three files
base ==
    str(words(<<"font-semibold", "transition-all", "duration-200", "focus:outline-none",
                "focus-visible:ring-4", "focus-visible:ring-offset-2">>))

sizeClasses ==
    [xs |-> str(words(<<"h-6", "px-2", "text-xs">>)),
     sm |-> str(words(<<"h-8", "px-3", "text-sm">>)),
     md |-> str(words(<<"h-10", "px-4", "text-sm">>)),
     lg |-> str(words(<<"h-12", "px-6", "text-base">>)),
     xl |-> str(words(<<"h-14", "px-8", "text-lg">>))]

shapeClasses ==
    [square |-> str(<<"rounded-lg">>),
     rounded |-> str(<<"rounded-full">>),
     squircle |-> str(<<"rounded-xl">>),
     circle |-> str(words(<<"rounded-full", "aspect-square", "p-0">>))]

\* the variant strings that do not depend on the color
subtleClasses ==
    str(words(<<"bg-transparent", "text-gray-700", "hover:bg-gray-100", "dark:text-gray-300",
                "dark:hover:bg-slate-700">>))

outlineClasses ==
    str(words(<<"bg-transparent", "border", "border-gray-300", "text-gray-700",
                "hover:bg-gray-50", "dark:border-slate-600", "dark:text-gray-300",
                "dark:hover:bg-slate-700">>))

ghostClasses ==
    str(words(<<"bg-transparent", "text-gray-700", "hover:text-blue-600", "dark:text-gray-300",
                "dark:hover:text-blue-400">>))

linkClasses ==
    str(words(<<"bg-transparent", "text-blue-600", "hover:text-blue-700", "underline",
                "dark:text-blue-400", "dark:hover:text-blue-300">>))

\* colorMap of Card.tsx
colorMapCard ==
    [blue |-> object(
        [primary |-> str(words(<<"bg-blue-600", "text-white", "hover:bg-blue-700",
                                 "focus-visible:ring-blue-500">>)),
         secondary |-> str(words(<<"bg-blue-100", "text-blue-700", "hover:bg-blue-200",
                                   "dark:bg-blue-800", "dark:text-blue-100",
                                   "dark:hover:bg-blue-700">>)),
         danger |-> str(words(<<"bg-red-600", "text-white", "hover:bg-red-700",
                                "focus-visible:ring-red-500">>))]),
     red |-> object(
        [primary |-> str(words(<<"bg-red-600", "text-white", "hover:bg-red-700",
                                 "focus-visible:ring-red-500">>)),
         secondary |-> str(words(<<"bg-red-100", "text-red-700", "hover:bg-red-200",
                                   "dark:bg-red-800", "dark:text-red-100",
                                   "dark:hover:bg-red-700">>)),
         danger |-> str(words(<<"bg-red-600", "text-white", "hover:bg-red-700",
                                "focus-visible:ring-red-500">>))])]

\* colorMap of AlertDialog.tsx: the blue entry only
colorMapAlertDialog == [blue |-> colorMapCard.blue]

\* colorMap of part_000
colorMapPart000 ==
    [blue |-> object(
        [primary |-> str(words(<<"bg-blue-600", "text-white", "hover:bg-blue-700",
                                 "dark:bg-blue-500", "dark:hover:bg-blue-600",
                                 "focus-visible:ring-blue-500">>)),
         outline |-> str(words(<<"border", "border-blue-600", "text-blue-600",
                                 "hover:bg-blue-50", "dark:border-blue-500",
                                 "dark:text-blue-400", "dark:hover:bg-slate-700">>))]),
     gray |-> object(
        [primary |-> str(words(<<"bg-gray-600", "text-white", "hover:bg-gray-700",
                                 "dark:bg-gray-500", "dark:hover:bg-gray-600",
                                 "focus-visible:ring-gray-500">>)),
         outline |-> str(words(<<"border", "border-gray-300", "text-gray-700",
                                 "hover:bg-gray-50", "dark:border-slate-600",
                                 "dark:text-gray-300", "dark:hover:bg-slate-700">>))])]

\* colorMap[color]?.name || colorMap.blue.name
colorEntry(colorMap, color, name) ==
    LET entry == Get(colorMap, color)
    IN  Or(IF entry = undefined THEN undefined ELSE Member(entry, name),
           colorMap.blue.v[name])

\* variantMap of Card.tsx and AlertDialog.tsx over their colorMap
variantMap(colorMap, color) ==
    [primary |-> colorEntry(colorMap, color, "primary"),
     secondary |-> colorEntry(colorMap, color, "secondary"),
     subtle |-> subtleClasses,
     outline |-> outlineClasses,
     ghost |-> ghostClasses,
     link |-> linkClasses]

\* variantMap of part_000
variantMapPart000(color) ==
    [primary |-> colorEntry(colorMapPart000, color, "primary"),
     outline |-> colorEntry(colorMapPart000, color, "outline"),
     secondary |-> str(words(<<"bg-gray-100", "text-gray-700", "hover:bg-gray-200",
                               "dark:bg-gray-800", "dark:text-gray-100",
                               "dark:hover:bg-gray-700">>)),
     subtle |-> subtleClasses,
     ghost |-> ghostClasses,
     link |-> linkClasses]

\* the return statement shared by the three copies
buttonClassList(props, table, disabledClasses) ==
    LET finalVariantClass == Or(Get(table, props.variant), table.primary)
    IN  str(cn(<<base, Get(sizeClasses, props.size), Get(shapeClasses, props.shape),
                 finalVariantClass, disabledClasses,
                 IF props.loading THEN str(<<"pointer-events-none">>) ELSE str(<<>>)>>))

\* getButtonClasses of Card.tsx
getButtonClassesCard(props) ==
    buttonClassList(props, variantMap(colorMapCard, props.color),
                    IF props.disabled THEN str(words(<<"opacity-50", "cursor-not-allowed">>))
                    ELSE str(<<>>))

\* getButtonClasses of AlertDialog.tsx
getButtonClassesAlertDialog(props) ==
    buttonClassList(props, variantMap(colorMapAlertDialog, props.color),
                    IF props.disabled THEN str(words(<<"opacity-50", "cursor-not-allowed">>))
                    ELSE str(<<>>))

\* getButtonClasses of part_000
getButtonClassesPart000(props) ==
    buttonClassList(props, variantMapPart000(props.color),
                    IF props.disabled \/ props.loading
                    THEN str(words(<<"opacity-50", "cursor-not-allowed">>))
                    ELSE str(<<>>))

\* keys given to the class functions: known ones, unknown ones, and a name
\* every object inherits
VariantKeys ==
    {"primary", "secondary", "tertiary", "outline", "ghost", "link", "subtle", "danger",
     "grayscale", "fancy", "constructor"}

ColorKeys == {"blue", "red", "gray", "indigo", "#ff0000", "constructor"}

SizeKeys == {"md", "xxl"}

ShapeKeys == {"rounded", "circle", "blob"}

ClassInputs ==
    [variant : VariantKeys, color : ColorKeys, size : SizeKeys, shape : ShapeKeys,
     disabled : BOOLEAN, loading : BOOLEAN]

\* Button.tsx calling getButtonClasses of the shared utilities
CallGetButtonClasses ==
    /\ pc = "classes"
    /\ fnResult' = getButtonClasses(fnInputs.variant, fnInputs.color, "default",
                                    fnInputs.disabled \/ fnInputs.loading)
    /\ pc' = "shared"
    /\ UNCHANGED <<fnInputs, dialogVars, pageVars>>

CallGetColorClass ==
    /\ pc = "classes"
    /\ fnResult' = getColorClass(fnInputs.color, fnInputs.variant)
    /\ pc' = "color"
    /\ UNCHANGED <<fnInputs, dialogVars, pageVars>>

CallGetButtonClassesCard ==
    /\ pc = "classes"
    /\ fnResult' = getButtonClassesCard(fnInputs)
    /\ pc' = "card"
    /\ UNCHANGED <<fnInputs, dialogVars, pageVars>>

CallGetButtonClassesAlertDialog ==
    /\ pc = "classes"
    /\ fnResult' = getButtonClassesAlertDialog(fnInputs)
    /\ pc' = "alertDialog"
    /\ UNCHANGED <<fnInputs, dialogVars, pageVars>>

CallGetButtonClassesPart000 ==
    /\ pc = "classes"
    /\ fnResult' = getButtonClassesPart000(fnInputs)
    /\ pc' = "part000"
    /\ UNCHANGED <<fnInputs, dialogVars, pageVars>>

\* ------------------------------------------------------------------------
\* Rendered Buttons: the element each Button component returns, and a click
\* ------------------------------------------------------------------------
BUTTON_SIZES ==
    [xs |-> str(words(<<"px-2.5", "py-1.5", "text-xs">>)),
     sm |-> str(words(<<"px-3", "py-2", "text-sm">>)),
     md |-> str(words(<<"px-4", "py-2.5", "text-base">>)),
     lg |-> str(words(<<"px-6", "py-3.5", "text-lg">>)),
     xl |-> str(words(<<"px-8", "py-4", "text-xl">>))]

\* the element a component returns: tag, disabled attribute, class, and
\* whether the caller's onClick is attached to it
Element(tag, disabled, className, onClick) ==
    [tag |-> tag, disabled |-> disabled, className |-> className, onClick |-> onClick]

\* prop-positioned Button of part_001: radiusClass
radiusClassProp(props) ==
    LET isVertical == props.groupDirection = "vertical"
        baseRadius == Or(Get(ROUNDED_VALUES, props.radius),
                         str(<<"rounded-[" \o props.radius \o "]">>))
    IN  IF props.groupPosition = "middle" THEN str(<<"rounded-none">>)
        ELSE IF props.groupPosition = "left"
        THEN str(<<IF isVertical THEN "rounded-b-none" ELSE "rounded-r-none">>)
        ELSE IF props.groupPosition = "right"
        THEN str(<<IF isVertical THEN "rounded-t-none" ELSE "rounded-l-none">>)
        ELSE baseRadius

\* prop-positioned Button of part_001: groupSpacing
groupSpacingProp(props) ==
    LET isVertical == props.groupDirection = "vertical"
    IN  IF props.groupPosition = "" THEN str(<<>>)
        ELSE IF props.groupPosition = "middle"
        THEN str(IF isVertical THEN words(<<"border-y-0", "my-0">>)
                 ELSE words(<<"border-x-0", "mx-0">>))
        ELSE IF props.groupPosition = "left"
        THEN str(IF isVertical THEN words(<<"mb-0", "border-b-0">>)
                 ELSE words(<<"mr-0", "border-r-0">>))
        ELSE IF props.groupPosition = "right"
        THEN str(IF isVertical THEN words(<<"mt-0", "border-t-0">>)
                 ELSE words(<<"ml-0", "border-l-0">>))
        ELSE str(<<>>)

\* prop-positioned Button of part_001: the element it returns
positionedButton(props) ==
    LET hasPreset == props.preset \in DOMAIN PRESETS
        OrStr(a, b) == IF a # "" THEN a ELSE b
        activeConfig(name) ==
            IF props.preset = "" THEN props[name]
            ELSE IF hasPreset THEN PRESETS[props.preset][name]
            ELSE ""
        isGrouped == props.groupPosition # ""
        isActiveState == props.active /\ isGrouped
        finalColor == IF isActiveState /\ props.activeColor # "" THEN props.activeColor
                      ELSE OrStr(activeConfig("color"), props.color)
        baseVariant == OrStr(activeConfig("variant"), props.variant)
        finalVariant == IF isActiveState /\ baseVariant \notin {"binary", "grayscale"}
                        THEN "primary" ELSE baseVariant
        finalIconPos == OrStr(activeConfig("iconPosition"), props.iconPosition)
        colorClasses == getColorClass(finalColor, finalVariant).className
        flexDirection == IF finalIconPos = "top" THEN "flex-col"
                         ELSE IF finalIconPos = "bottom" THEN "flex-col-reverse"
                         ELSE IF finalIconPos = "right" THEN "flex-row-reverse"
                         ELSE "flex-row"
        className == str(cnConfig(<<
            str(words(<<"inline-flex", "items-center", "justify-center", "font-medium",
                        "transition-all", "duration-300", "active:scale-[0.98]",
                        "disabled:pointer-events-none", "disabled:opacity-50",
                        "focus-visible:ring-2", "focus-visible:ring-offset-2",
                        "focus-visible:outline-none">>)),
            Or(Get(BUTTON_SIZES, props.size), str(<<"p-3">>)),
            radiusClassProp(props),
            IF props.disabled
            THEN str(words(<<"bg-neutral-200", "text-neutral-400", "border-neutral-200",
                             "dark:bg-neutral-800", "dark:text-neutral-600",
                             "dark:border-neutral-800", "shadow-none">>))
            ELSE colorClasses,
            groupSpacingProp(props),
            str(<<flexDirection>>),
            str(<<IF props.size = "xs" THEN "gap-1.5" ELSE "gap-2">>),
            IF isActiveState
            THEN str(words(<<"z-10", "relative", "ring-2", "ring-offset-1", "ring-transparent">>))
            ELSE str(<<>>),
            props.className>>))
    IN  IF finalVariant = "link" /\ props.href # "" /\ ~props.disabled
        THEN Element("a", FALSE, className, FALSE)
        ELSE Element("button", props.disabled, className, TRUE)

\* defaultContext of part_001
defaultContext ==
    [isGrouped |-> FALSE, groupDirection |-> "horizontal", groupRadius |-> "md",
     groupPosition |-> "none", groupColor |-> "", groupVariant |-> "", groupActiveColor |-> ""]

\* context-driven Button of part_001: the element it returns
contextButton(props, ctx) ==
    LET OrStr(a, b) == IF a # "" THEN a ELSE b
        presetVariant == IF props.preset \in DOMAIN PRESETS
                         THEN PRESETS[props.preset].variant ELSE ""
        baseVariant == OrStr(OrStr(presetVariant, ctx.groupVariant), props.variant)
        finalVariant == IF props.active /\ ctx.isGrouped
                           /\ baseVariant \notin {"binary", "grayscale"}
                        THEN "primary" ELSE baseVariant
        className == computedClassName(props, ctx)
    IN  IF className = TypeError THEN TypeError
        ELSE IF finalVariant = "link" /\ props.href # "" /\ ~props.disabled
        THEN Element("a", FALSE, className, FALSE)
        ELSE Element("button", props.disabled, className, TRUE)

\* Button of Button.tsx: the element it returns
sharedButton(props, ctx) ==
    LET className == finalClassName(props, ctx)
    IN  IF className = TypeError THEN TypeError
        ELSE IF props.href # ""
        THEN Element("a", FALSE, className, TRUE)
        ELSE Element("button", props.disabled \/ props.loading, className, TRUE)

\* Button of Card.tsx and AlertDialog.tsx: finalClassName over the classes
\* its own getButtonClasses returned
finalClassNameCard(buttonClasses, className) ==
    str(cn(<<buttonClasses, className, str(words(<<"flex", "items-center", "justify-center">>))>>))

\* Button of Card.tsx: the element it returns
cardButton(props) ==
    LET buttonDisabled == props.disabled \/ props.loading
    IN  Element("button", buttonDisabled,
                finalClassNameCard(
                    getButtonClassesCard([props EXCEPT !.disabled = buttonDisabled]),
                    props.className),
                TRUE)

\* Button of AlertDialog.tsx: the element it returns
alertDialogButton(props) ==
    LET buttonDisabled == props.disabled \/ props.loading
    IN  Element("button", buttonDisabled,
                finalClassNameCard(
                    getButtonClassesAlertDialog([props EXCEPT !.disabled = buttonDisabled]),
                    props.className),
                TRUE)

\* Button of part_000: the element it returns; the anchor gets no onClick
part000Button(props) ==
    LET buttonDisabled == props.disabled \/ props.loading
        className == finalClassNameCard(
                         getButtonClassesPart000([props EXCEPT !.disabled = buttonDisabled]),
                         props.className)
    IN  IF props.href # ""
        THEN Element("a", FALSE, className, FALSE)
        ELSE Element("button", buttonDisabled, className, TRUE)

\* AlertDialog actions.map: the props of the Button rendered for an action
actionButtonProps(action) ==
    [variant |-> IF action.isDestructive THEN "primary"
                 ELSE IF action.variant # "" THEN action.variant ELSE "outline",
     color |-> IF action.isDestructive THEN "red"
               ELSE IF action.color # "" THEN action.color ELSE "gray",
     loading |-> action.loading, disabled |-> action.disabled,
     size |-> "md", shape |-> "rounded", className |-> str(words(<<"w-full", "sm:w-auto">>))]

\* The browser delivers a user's click to an element unless it is a disabled
\* button or its computed pointer-events is none
ReceivesClick(el) ==
    LET toks == Range(Tokens(el.className.v))
        isDisabledButton == el.tag = "button" /\ el.disabled
    IN  /\ ~isDisabledButton
        /\ "pointer-events-none" \notin toks

\* class names a caller passes: none, padding, rounding, display, colour, size
ClassNames ==
    {undefined, str(<<"px-1">>), str(<<"rounded-full">>), str(<<"hidden">>),
     str(<<"bg-red-500">>), str(<<"text-xs">>)}

ButtonInputs ==
    [component : {"part_001 prop"}, variant : {"primary", "outline", "link"},
     radius : {"md", "10px"}, groupPosition : {"", "left", "middle", "right"},
     groupDirection : {"horizontal", "vertical"}, disabled : BOOLEAN,
     preset : {"", "loading", "next"}, className : ClassNames, href : {"", "/docs"}]
    \cup [component : {"part_001 context"}, variant : {"primary", "outline", "link"},
          radius : {"md", "10px"}, disabled : BOOLEAN, preset : {"", "loading", "next"},
          className : ClassNames, href : {"", "/docs"}]
    \cup [component : {"Button.tsx"}, variant : {"primary", "ghost"}, size : {"md", "lg"},
          disabled : BOOLEAN, loading : BOOLEAN, className : ClassNames, href : {"", "/docs"}]
    \cup [component : {"Card.tsx"}, variant : {"primary", "outline"}, color : {"blue", "red"},
          disabled : BOOLEAN, loading : BOOLEAN, className : ClassNames]
    \cup [component : {"part_000"}, variant : {"primary", "outline"}, color : {"blue", "gray"},
          disabled : BOOLEAN, loading : BOOLEAN, className : ClassNames, href : {"", "/docs"}]
    \cup [component : {"Card.tsx action", "AlertDialog.tsx action"}, isDestructive : BOOLEAN,
          variant : {"", "primary", "outline"}, color : {"", "blue", "gray", "red"},
          disabled : BOOLEAN, loading : BOOLEAN]

Rendered(el) == [element |-> el, clicks |-> 0, calls |-> 0]

RenderPositionedButton ==
    /\ pc = "button"
    /\ fnInputs.component = "part_001 prop"
    /\ fnResult' = Rendered(positionedButton(
           [color |-> "indigo", variant |-> fnInputs.variant, disabled |-> fnInputs.disabled,
            size |-> "md", radius |-> fnInputs.radius, groupPosition |-> fnInputs.groupPosition,
            groupDirection |-> fnInputs.groupDirection, active |-> FALSE, activeColor |-> "",
            href |-> fnInputs.href, iconPosition |-> "left", preset |-> fnInputs.preset,
            className |-> fnInputs.className]))
    /\ pc' = "rendered"
    /\ UNCHANGED <<fnInputs, dialogVars, pageVars>>

RenderContextButton ==
    /\ pc = "button"
    /\ fnInputs.component = "part_001 context"
    /\ fnResult' = Rendered(contextButton(
           [color |-> "indigo", variant |-> fnInputs.variant, disabled |-> fnInputs.disabled,
            radius |-> fnInputs.radius, active |-> FALSE, activeColor |-> "",
            href |-> fnInputs.href, iconPosition |-> "left", preset |-> fnInputs.preset,
            className |-> fnInputs.className],
           defaultContext))
    /\ pc' = "rendered"
    /\ UNCHANGED <<fnInputs, dialogVars, pageVars>>

RenderSharedButton ==
    /\ pc = "button"
    /\ fnInputs.component = "Button.tsx"
    /\ fnResult' = Rendered(sharedButton(
           [variant |-> fnInputs.variant, shape |-> "squircle", loading |-> fnInputs.loading,
            color |-> "blue", disabled |-> fnInputs.disabled,
            className |-> IF fnInputs.className = undefined THEN <<>>
                          ELSE fnInputs.className.v,
            size |-> fnInputs.size, href |-> fnInputs.href, type |-> "default"],
           [isGrouped |-> FALSE, groupPosition |-> "single"]))
    /\ pc' = "rendered"
    /\ UNCHANGED <<fnInputs, dialogVars, pageVars>>

RenderCardButton ==
    /\ pc = "button"
    /\ fnInputs.component = "Card.tsx"
    /\ fnResult' = Rendered(cardButton(
           [variant |-> fnInputs.variant, size |-> "md", color |-> fnInputs.color,
            shape |-> "rounded", loading |-> fnInputs.loading, disabled |-> fnInputs.disabled,
            className |-> fnInputs.className]))
    /\ pc' = "rendered"
    /\ UNCHANGED <<fnInputs, dialogVars, pageVars>>

RenderPart000Button ==
    /\ pc = "button"
    /\ fnInputs.component = "part_000"
    /\ fnResult' = Rendered(part000Button(
           [variant |-> fnInputs.variant, size |-> "md", color |-> fnInputs.color,
            shape |-> "rounded", loading |-> fnInputs.loading, disabled |-> fnInputs.disabled,
            className |-> fnInputs.className, href |-> fnInputs.href]))
    /\ pc' = "rendered"
    /\ UNCHANGED <<fnInputs, dialogVars, pageVars>>

\* AlertDialog of Card.tsx rendering the Button of one action
RenderCardDialogAction ==
    /\ pc = "button"
    /\ fnInputs.component = "Card.tsx action"
    /\ fnResult' = Rendered(cardButton(actionButtonProps(fnInputs)))
    /\ pc' = "rendered"
    /\ UNCHANGED <<fnInputs, dialogVars, pageVars>>

\* AlertDialog of AlertDialog.tsx (first copy) rendering the Button of one action
RenderAlertDialogAction ==
    /\ pc = "button"
    /\ fnInputs.component = "AlertDialog.tsx action"
    /\ fnResult' = Rendered(alertDialogButton(actionButtonProps(fnInputs)))
    /\ pc' = "rendered"
    /\ UNCHANGED <<fnInputs, dialogVars, pageVars>>

\* the user clicks the rendered element
ClickButton ==
    /\ pc = "rendered"
    /\ fnResult.element # TypeError
    /\ fnResult' = [fnResult EXCEPT
           !.clicks = 1,
           !.calls = IF ReceivesClick(fnResult.element) /\ fnResult.element.onClick
                     THEN 1 ELSE 0]
    /\ pc' = "clicked"
    /\ UNCHANGED <<fnInputs, dialogVars, pageVars>>

\* ------------------------------------------------------------------------
\* Button.tsx: dark mode subscription and the dual-source icon
\* ------------------------------------------------------------------------
Buttons == 1..NumButtons

\* classes a page script puts on the document root
RootClassNames == {"dark", "wide"}

\* icon props: a dual source with either side present or missing
IconSources == [light : {"", "sun.svg"}, dark : {"", "moon.svg"}]

\* checkDarkMode reading another class than dark
checkDarkModeOtherClass(classList) == "wide" \in classList

\* checkDarkMode: document.documentElement.classList.contains("dark")
checkDarkMode(classList) == "dark" \in classList

\* renderIcon for a dual source: the src of the image rendered, "" for none
renderIcon(currentIcon, dark) ==
    LET OrStr(a, b) == IF a # "" THEN a ELSE b
    IN  IF dark THEN OrStr(currentIcon.dark, currentIcon.light)
        ELSE OrStr(currentIcon.light, currentIcon.dark)

DarkIdle ==
    /\ rootClasses = {}
    /\ icon = [b \in Buttons |-> [light |-> "", dark |-> ""]]
    /\ buttonPhase = [b \in Buttons |-> "unmounted"]
    /\ darkMode = [b \in Buttons |-> FALSE]
    /\ observing = {}
    /\ notified = {}
    /\ lastCheck = [b \in Buttons |-> "none"]

DarkInit ==
    /\ rootClasses \in SUBSET RootClassNames
    /\ icon \in [Buttons -> IconSources]
    /\ buttonPhase = [b \in Buttons |-> "unmounted"]
    /\ darkMode = [b \in Buttons |-> FALSE]
    /\ observing = {}
    /\ notified = {}
    /\ lastCheck = [b \in Buttons |-> "none"]

\* first render of a Button: useState(false)
RenderDarkButton(b) ==
    /\ buttonPhase[b] = "unmounted"
    /\ buttonPhase' = [buttonPhase EXCEPT ![b] = "rendered"]
    /\ darkMode' = [darkMode EXCEPT ![b] = FALSE]
    /\ lastCheck' = [lastCheck EXCEPT ![b] = "none"]
    /\ UNCHANGED <<rootClasses, icon, observing, notified>>

\* the effect: checkDarkMode(); observer.observe(documentElement, class)
DarkEffect(b) ==
    /\ buttonPhase[b] = "rendered"
    /\ buttonPhase' = [buttonPhase EXCEPT ![b] = "mounted"]
    /\ darkMode' = [darkMode EXCEPT ![b] = checkDarkMode(rootClasses)]
    /\ observing' = observing \cup {b}
    /\ lastCheck' = [lastCheck EXCEPT ![b] = "effect"]
    /\ UNCHANGED <<rootClasses, icon, notified>>

\* a script changes the class attribute of the root: every connected
\* observer gets a mutation record
ChangeRootClass(classList) ==
    /\ classList # rootClasses
    /\ rootClasses' = classList
    /\ notified' = notified \cup observing
    /\ UNCHANGED <<icon, buttonPhase, darkMode, observing, lastCheck>>

\* the observer callback: a record with attributeName "class" -> checkDarkMode()
DeliverMutations(b) ==
    /\ b \in notified
    /\ notified' = notified \ {b}
    /\ darkMode' = [darkMode EXCEPT ![b] = checkDarkMode(rootClasses)]
    /\ lastCheck' = [lastCheck EXCEPT ![b] = "observer"]
    /\ UNCHANGED <<rootClasses, icon, buttonPhase, observing>>

\* unmount: the cleanup disconnects the observer, queued records are dropped
UnmountDarkButton(b) ==
    /\ buttonPhase[b] = "mounted"
    /\ buttonPhase' = [buttonPhase EXCEPT ![b] = "unmounted"]
    /\ observing' = observing \ {b}
    /\ notified' = notified \ {b}
    /\ UNCHANGED <<rootClasses, icon, darkMode, lastCheck>>

\* ------------------------------------------------------------------------
\* CardDescription: checkTruncation and its effect
\* ------------------------------------------------------------------------
TruncIdle ==
    /\ textRef = FALSE
    /\ timers = 0
    /\ resizeListener = FALSE
    /\ contentObserver = FALSE
    /\ contentNotified = FALSE
    /\ overflows = FALSE
    /\ isTruncated = FALSE
    /\ timerFault = FALSE

PageIdle == DarkIdle /\ TruncIdle

\* checkTruncation: if (!textRef.current) return; setTimeout(..., 50);
\* the pending timers afterwards (the returned cancel function is unused)
checkTruncation(ref, pending) == IF ref THEN pending + 1 ELSE pending

\* mount: the ref is set, then the effect runs checkTruncation, adds the
\* resize listener and observes the text
MountDescription ==
    /\ ~textRef /\ ~resizeListener
    /\ timers < MaxTimers
    /\ textRef' = TRUE
    /\ timers' = checkTruncation(TRUE, timers)
    /\ resizeListener' = TRUE
    /\ contentObserver' = TRUE
    /\ contentNotified' = FALSE
    /\ overflows' \in BOOLEAN
    /\ isTruncated' = FALSE
    /\ UNCHANGED timerFault

\* window resize: the box changes, the listener is checkTruncation
Resize ==
    /\ resizeListener
    /\ timers < MaxTimers
    /\ timers' = checkTruncation(textRef, timers)
    /\ overflows' \in BOOLEAN
    /\ UNCHANGED <<textRef, resizeListener, contentObserver, contentNotified, isTruncated,
                   timerFault>>

\* the text under the paragraph changes in the DOM
ContentMutation ==
    /\ contentObserver
    /\ contentNotified' = TRUE
    /\ overflows' \in BOOLEAN
    /\ UNCHANGED <<textRef, timers, resizeListener, contentObserver, isTruncated, timerFault>>

\* the MutationObserver callback is checkTruncation
DeliverContentMutation ==
    /\ contentNotified
    /\ timers < MaxTimers
    /\ contentNotified' = FALSE
    /\ timers' = checkTruncation(textRef, timers)
    /\ UNCHANGED <<textRef, resizeListener, contentObserver, overflows, isTruncated,
                   timerFault>>

\* a re-render with new children: cleanup (listener removed, observer
\* disconnected with its records), then the effect again
ChildrenChange ==
    /\ textRef /\ resizeListener
    /\ timers < MaxTimers
    /\ timers' = checkTruncation(textRef, timers)
    /\ contentNotified' = FALSE
    /\ overflows' \in BOOLEAN
    /\ UNCHANGED <<textRef, resizeListener, contentObserver, isTruncated, timerFault>>

\* a 50 ms timer fires: setIsTruncated(textRef.current!.scrollHeight > ...clientHeight)
TimerExpiry ==
    /\ timers > 0
    /\ timers' = timers - 1
    /\ IF textRef
       THEN /\ isTruncated' = overflows
            /\ UNCHANGED timerFault
       ELSE /\ timerFault' = TRUE
            /\ UNCHANGED isTruncated
    /\ UNCHANGED <<textRef, resizeListener, contentObserver, contentNotified, overflows>>

\* unmount: React clears the ref; the cleanup removes the listener and
\* disconnects the observer; no timer is cleared
UnmountDescription ==
    /\ textRef
    /\ textRef' = FALSE
    /\ resizeListener' = FALSE
    /\ contentObserver' = FALSE
    /\ contentNotified' = FALSE
    /\ UNCHANGED <<timers, overflows, isTruncated, timerFault>>

\* ------------------------------------------------------------------------
\* Specifications
\* ------------------------------------------------------------------------
ActionProps == [disabled : BOOLEAN, loading : BOOLEAN, isDefault : BOOLEAN]

\* the dialog has been mounted closed: the effect returned early
DialogInit ==
    /\ plainSelector \in BOOLEAN
    /\ actions \in SeqsUpTo(ActionProps, MaxActions)
    /\ mounted = TRUE
    /\ isOpen = FALSE
    /\ onClose = 1
    /\ activeElement \in OutsideEls
    /\ triggerElementRef = "null"
    /\ dialogRef = FALSE
    /\ listeners = EmptyBag
    /\ effect = 0
    /\ raf = FALSE
    /\ openFocus = "body"
    /\ trapped = FALSE
    /\ last = NoStep

\* no dialog on the page
DialogIdle ==
    /\ plainSelector = FALSE
    /\ actions = <<>>
    /\ mounted = FALSE
    /\ isOpen = FALSE
    /\ onClose = 1
    /\ activeElement = "body"
    /\ triggerElementRef = "null"
    /\ dialogRef = FALSE
    /\ listeners = EmptyBag
    /\ effect = 0
    /\ raf = FALSE
    /\ openFocus = "body"
    /\ trapped = FALSE
    /\ last = NoStep

Init ==
    /\ DialogInit
    /\ PageIdle
    /\ pc = "dialog"
    /\ fnInputs = <<>>
    /\ fnResult = NoResult

Next ==
    \/ \E new \in BOOLEAN : Open(Prop(new)) /\ UNCHANGED <<resolverVars, pageVars>>
    \/ \E new \in BOOLEAN : Close(Prop(new)) /\ UNCHANGED <<resolverVars, pageVars>>
    \/ \E new \in BOOLEAN : ReRender(Prop(new)) /\ UNCHANGED <<resolverVars, pageVars>>
    \/ Unmount /\ UNCHANGED <<resolverVars, pageVars>>
    \/ AnimationFrame /\ UNCHANGED <<resolverVars, pageVars>>
    \/ KeyEscape /\ UNCHANGED <<resolverVars, pageVars>>
    \/ \E shift \in BOOLEAN : KeyTab(shift) /\ UNCHANGED <<resolverVars, pageVars>>

Spec == Init /\ [][Next]_vars

\* the dialog under re-renders and clicks
NextClick ==
    \/ \E new \in BOOLEAN : Open(Prop(new)) /\ UNCHANGED <<resolverVars, pageVars>>
    \/ \E new \in BOOLEAN : Close(Prop(new)) /\ UNCHANGED <<resolverVars, pageVars>>
    \/ \E new \in BOOLEAN : ReRender(Prop(new)) /\ UNCHANGED <<resolverVars, pageVars>>
    \/ Unmount /\ UNCHANGED <<resolverVars, pageVars>>
    \/ \E target \in {"backdrop", "dialog", "close"} \cup Range(ActionNames) :
          Click(target) /\ UNCHANGED <<resolverVars, pageVars>>

SpecClick == Init /\ [][NextClick]_vars

InitClsx ==
    /\ DialogIdle
    /\ PageIdle
    /\ pc = "clsx"
    /\ fnInputs \in ClsxInputs
    /\ fnResult = NoResult

NextClsx == CallClsx \/ CallClsxNested

SpecClsx == InitClsx /\ [][NextClsx]_vars

InitCn ==
    /\ DialogIdle
    /\ PageIdle
    /\ pc = "cn"
    /\ fnInputs \in CnInputs
    /\ fnResult = NoResult

NextCn == CallCn \/ CallCnAgain

SpecCn == InitCn /\ [][NextCn]_vars

InitResolver ==
    /\ DialogIdle
    /\ PageIdle
    /\ pc = "cn"
    /\ fnInputs \in ResolverInputs
    /\ fnResult = NoResult

SpecResolver == InitResolver /\ [][NextCn]_vars

InitGroup ==
    /\ DialogIdle
    /\ PageIdle
    /\ pc = "group"
    /\ fnInputs \in GroupInputs
    /\ fnResult = NoResult

NextGroup == RenderButtonGroup \/ RenderAlertButtonGroup \/ RenderContextGroup

SpecGroup == InitGroup /\ [][NextGroup]_vars

InitClasses ==
    /\ DialogIdle
    /\ PageIdle
    /\ pc = "classes"
    /\ fnInputs \in ClassInputs
    /\ fnResult = NoResult

NextClasses ==
    \/ CallGetButtonClasses
    \/ CallGetColorClass
    \/ CallGetButtonClassesCard
    \/ CallGetButtonClassesAlertDialog
    \/ CallGetButtonClassesPart000

SpecClasses == InitClasses /\ [][NextClasses]_vars

InitButton ==
    /\ DialogIdle
    /\ PageIdle
    /\ pc = "button"
    /\ fnInputs \in ButtonInputs
    /\ fnResult = NoResult

NextButton ==
    \/ RenderPositionedButton
    \/ RenderContextButton
    \/ RenderSharedButton
    \/ RenderCardButton
    \/ RenderPart000Button
    \/ RenderCardDialogAction
    \/ RenderAlertDialogAction
    \/ ClickButton

SpecButton == InitButton /\ [][NextButton]_vars

InitDark ==
    /\ DialogIdle
    /\ pc = "page"
    /\ fnInputs = <<>>
    /\ fnResult = NoResult
    /\ DarkInit
    /\ TruncIdle

NextDark ==
    \/ \E b \in Buttons : RenderDarkButton(b) /\ UNCHANGED <<dialogVars, resolverVars, truncVars>>
    \/ \E b \in Buttons : DarkEffect(b) /\ UNCHANGED <<dialogVars, resolverVars, truncVars>>
    \/ \E classList \in SUBSET RootClassNames :
          ChangeRootClass(classList) /\ UNCHANGED <<dialogVars, resolverVars, truncVars>>
    \/ \E b \in Buttons : DeliverMutations(b) /\ UNCHANGED <<dialogVars, resolverVars, truncVars>>
    \/ \E b \in Buttons : UnmountDarkButton(b) /\ UNCHANGED <<dialogVars, resolverVars, truncVars>>

SpecDark == InitDark /\ [][NextDark]_vars

InitTruncation ==
    /\ DialogIdle
    /\ pc = "page"
    /\ fnInputs = <<>>
    /\ fnResult = NoResult
    /\ DarkIdle
    /\ TruncIdle

NextTruncation ==
    \/ MountDescription /\ UNCHANGED <<dialogVars, resolverVars, darkVars>>
    \/ Resize /\ UNCHANGED <<dialogVars, resolverVars, darkVars>>
    \/ ContentMutation /\ UNCHANGED <<dialogVars, resolverVars, darkVars>>
    \/ DeliverContentMutation /\ UNCHANGED <<dialogVars, resolverVars, darkVars>>
    \/ ChildrenChange /\ UNCHANGED <<dialogVars, resolverVars, darkVars>>
    \/ TimerExpiry /\ UNCHANGED <<dialogVars, resolverVars, darkVars>>
    \/ UnmountDescription /\ UNCHANGED <<dialogVars, resolverVars, darkVars>>

SpecTruncation == InitTruncation /\ [][NextTruncation]_vars

\* ------------------------------------------------------------------------
\* Properties
\* ------------------------------------------------------------------------

\* C1: when the dialog has opened and its animation-frame callback has run,
\* focus is on the default button if there is one, else on the first
\* focusable descendant, else on the container: always inside the dialog.
C1_OpenMovesFocusIntoDialog ==
    (last.type = "raf" /\ mounted /\ isOpen) =>
        /\ activeElement = RafTarget(actions, plainSelector)
        /\ activeElement \in DialogEls(actions)

\* C2: while open, Tab on the last descendant that can hold focus moves focus
\* to the first such descendant, and Shift+Tab on the first moves it to the last.
C2_TabWraps ==
    LET able == focusableElements(actions, FALSE)
    IN  (last.type = "Tab" /\ last.open) =>
            /\ (~last.shift /\ last.from = able[Len(able)]) => activeElement = able[1]
            /\ (last.shift /\ last.from = able[1]) => activeElement = able[Len(able)]

\* C3: an Escape press invokes onClose exactly once while the dialog is open
\* and never while it is closed.
C3_EscapeClosesOnce ==
    last.type = "Escape" => last.calls = (IF last.open THEN 1 ELSE 0)

C3_Witness ==
    last.type = "Escape" /\ last.open /\ last.calls = 1 /\ onClose = 2 /\ ~raf

\* C4: when the dialog closes, or is unmounted while open, focus is back on
\* the element that held focus when the dialog opened.
C4_FocusRestored ==
    (last.type = "close" \/ (last.type = "unmount" /\ last.open))
        => activeElement = openFocus

\* The restore does succeed whenever the pre-open element can take focus,
\* i.e. is an element other than the document body.
C4_FocusRestoredToElement ==
    ((last.type = "close" \/ (last.type = "unmount" /\ last.open)) /\ openFocus # "body")
        => activeElement = openFocus

\* C5: the instance has exactly one keydown listener on the document while
\* it is mounted and open, and none otherwise.
C5_OneListener ==
    BagCardinality(listeners) = (IF mounted /\ isOpen THEN 1 ELSE 0)

C5_Witness ==
    /\ last.type = "rerender" /\ last.changed
    /\ mounted /\ isOpen
    /\ BagCardinality(listeners) = 1

\* C6: once the open dialog has received its initial focus, Tab and Shift+Tab
\* presses never take focus out of the dialog.
C6_FocusTrap == trapped => activeElement \in DialogEls(actions)

\* C7: of the tokens that share a CategoryKey only the last one is in the
\* result of the merge; merging p-2 then p-4 keeps p-4 and drops p-2.
C7_LastWins ==
    pc \in {"merged", "remerged"} =>
        LET toks == [i \in 1..Len(fnInputs) |-> fnInputs[i].v[1]]
            out == Tokens(fnResult.flat)
            Same(a, b) == Recognized(a) /\ Recognized(b) /\ CategoryKey(a) = CategoryKey(b)
        IN  /\ \A i \in 1..Len(toks) : Recognized(toks[i]) =>
                  LET lastIdx == CHOOSE j \in 1..Len(toks) :
                                    /\ Same(toks[i], toks[j])
                                    /\ \A k \in (j + 1)..Len(toks) : ~Same(toks[i], toks[k])
                      hits == {k \in 1..Len(out) : Same(toks[i], out[k])}
                  IN  /\ Cardinality(hits) = 1
                      /\ \A k \in hits : out[k] = toks[lastIdx]
            /\ toks = <<"p-2", "p-4">> => ("p-4" \in Range(out) /\ "p-2" \notin Range(out))

C7_Witness ==
    /\ pc = "merged"
    /\ fnInputs = <<str(<<"p-2">>), str(<<"p-4">>)>>
    /\ fnResult.flat = <<"p-4">>

\* C8: flattening a keyed map yields exactly the keys whose value is truthy,
\* in insertion order; {text-red-500: false, text-blue-500: true} gives text-blue-500.
C8_MapFlatten ==
    (pc # "clsx" /\ Len(fnInputs) = 1 /\ fnInputs[1].t = "obj") =>
        LET es == fnInputs[1].v
            falsy == {bool(FALSE), num(0), str(<<>>), null, undefined}
            IsKept(e) == e.value \notin falsy
            kept == SelectSeq(es, IsKept)
        IN  /\ Tokens(fnResult.flat) = [i \in 1..Len(kept) |-> kept[i].key[1]]
            /\ \A i \in 1..Len(es) :
                  es[i].value \in falsy => es[i].key[1] \notin Range(Tokens(fnResult.flat))

C8_Witness ==
    /\ pc = "flat"
    /\ fnInputs = <<obj(<<[key |-> <<"text-red-500">>, value |-> bool(FALSE)],
                          [key |-> <<"text-blue-500">>, value |-> bool(TRUE)]>>)>>
    /\ fnResult.flat = <<"text-blue-500">>

\* C9: flatten(a, b) equals flatten(flatten(a), flatten(b)).
C9_Associative ==
    (pc = "nested" /\ Len(fnInputs) = 2) => fnResult.nested = fnResult.flat

C9_Witness ==
    /\ pc = "nested"
    /\ fnInputs = <<arr(<<null, str(<<"p-2">>)>>),
                    obj(<<[key |-> <<"text-red-500">>, value |-> bool(FALSE)],
                          [key |-> <<"text-blue-500">>, value |-> bool(TRUE)]>>)>>
    /\ fnResult.each = <<(<<"p-2">>), (<<"text-blue-500">>)>>
    /\ fnResult.nested = <<"p-2", SP, "text-blue-500">>

\* C10: merging the result of a merge changes nothing.
C10_Idempotent ==
    pc = "remerged" => fnResult.nested = fnResult.flat

C10_Witness ==
    /\ pc = "remerged"
    /\ fnInputs = <<str(<<"p-2">>), str(<<"custom-a">>), str(<<"p-4">>)>>
    /\ fnResult.nested = <<"custom-a", SP, "p-4">>

\* C11: every number given to the flattener, at top level or inside a
\* sequence, appears in the flattened output as a token, in its string form.
C11_NumberCoerced ==
    pc = "flat" =>
        LET RECURSIVE Numbers(_)
            Numbers(input) ==
                IF input.t = "num" THEN {input.v}
                ELSE IF input.t = "arr"
                THEN UNION {Numbers(input.v[i]) : i \in 1..Len(input.v)}
                ELSE {}
        IN  \A n \in Numbers(arr(fnInputs)) : ToString(n) \in Range(Tokens(fnResult.flat))

\* C12: the flattened tokens are those of the leaves in depth-first,
\* left-to-right order: the words of a string, the truthy keys of a map,
\* nothing for null, undefined, false, the empty string and values of an
\* unexpected type (true, a function), at any depth; a number contributes
\* what the flattener makes of it alone.
C12_DepthFirst ==
    pc = "flat" =>
        LET Nothing == {null, undefined, bool(FALSE), bool(TRUE), str(<<>>), function}
            RECURSIVE Concat(_)
            Concat(ss) == IF Len(ss) = 0 THEN <<>> ELSE Head(ss) \o Concat(Tail(ss))
            RECURSIVE DepthFirst(_)
            DepthFirst(input) ==
                IF input \in Nothing THEN <<>>
                ELSE IF input.t = "arr"
                THEN Concat([i \in 1..Len(input.v) |-> DepthFirst(input.v[i])])
                ELSE IF input.t = "str" THEN Tokens(input.v)
                ELSE IF input.t = "obj"
                THEN LET Kept(e) == Truthy(e.value)
                         kept == SelectSeq(input.v, Kept)
                     IN  [i \in 1..Len(kept) |-> kept[i].key[1]]
                ELSE Tokens(clsx(<<input>>))
        IN  /\ Tokens(fnResult.flat) = DepthFirst(arr(fnInputs))
            /\ \A i \in 1..Len(fnInputs) : fnInputs[i] \in Nothing => fnResult.each[i] = <<>>

C12_Witness ==
    /\ pc = "flat"
    /\ fnInputs = <<arr(<<arr(<<null, str(<<"p-2", SP, "p-4">>)>>)>>), bool(TRUE)>>
    /\ fnResult.flat = <<"p-2", SP, "p-4">>

\* C13 as stated: the output holds every token once, the tokens are
\* separated by single spaces and there is no leading or trailing whitespace.
C13_EachTokenOnce ==
    pc = "merged" =>
        LET out == fnResult.flat
        IN  /\ Distinct(Tokens(out))
            /\ \A i \in 1..Len(out) : (out[i] = SP) = (i % 2 = 0)
            /\ Len(out) % 2 = 1 \/ Len(out) = 0

\* C13 as amended: every token with a recognized stem is in the output at
\* most once, a token with an unrecognized stem as often as it was supplied;
\* tokens are separated by single spaces, without leading or trailing whitespace.
C13_ResolverOutput ==
    pc = "merged" =>
        LET out == fnResult.flat
            given == Tokens(join([i \in 1..Len(fnInputs) |-> fnInputs[i].v]))
            Count(seq, tok) == Cardinality({i \in 1..Len(seq) : seq[i] = tok})
        IN  /\ \A tok \in Range(Tokens(out)) :
                  Count(Tokens(out), tok) = IF Recognized(tok) THEN 1 ELSE Count(given, tok)
            /\ \A i \in 1..Len(out) : (out[i] = SP) = (i % 2 = 0)
            /\ Len(out) % 2 = 1 \/ Len(out) = 0

C13_Witness ==
    /\ pc = "merged"
    /\ fnInputs = <<str(<<SP, "p-4", SP>>), str(<<"custom-a", SP, SP, "bg-red-500">>),
                    str(<<"custom-a">>)>>
    /\ fnResult.flat = <<"p-4", SP, "custom-a", SP, "bg-red-500", SP, "custom-a">>

\* C14: tokens with an unrecognized stem all reach the output, in their input
\* order; a token is missing from the output only if a later token has its
\* CategoryKey; a token followed by no token with both its prefix and its
\* stem stays, so bg-red-500 and hover:bg-red-500 never remove each other.
C14_OnlyConflictsRemoved ==
    pc = "merged" =>
        LET toks == [i \in 1..Len(fnInputs) |-> fnInputs[i].v[1]]
            out == Tokens(fnResult.flat)
            Unrecognized(tok) == ~Recognized(tok)
            Count(seq, tok) == Cardinality({i \in 1..Len(seq) : seq[i] = tok})
        IN  /\ SelectSeq(out, Unrecognized) = SelectSeq(toks, Unrecognized)
            /\ \A i \in 1..Len(toks) :
                  Count(out, toks[i]) < Count(toks, toks[i]) =>
                      \E j, k \in 1..Len(toks) :
                          /\ j < k
                          /\ toks[j] = toks[i]
                          /\ CategoryKey(toks[k]) = CategoryKey(toks[j])
            /\ \A i \in 1..Len(toks) :
                  (\A k \in (i + 1)..Len(toks) :
                      Prefix(toks[k]) # Prefix(toks[i]) \/ Stem(toks[k]) # Stem(toks[i]))
                  => toks[i] \in Range(out)

C14_Witness ==
    /\ pc = "merged"
    /\ fnInputs = <<str(<<"bg-red-500">>), str(<<"hover:bg-red-500">>), str(<<"custom-b">>)>>
    /\ fnResult.flat = <<"bg-red-500", SP, "hover:bg-red-500", SP, "custom-b">>


\* C15: a group of one child tags it single; in a group of two or more the
\* first child is tagged first, the last one last and every other one middle.
C15_PositionTags ==
    pc = "rendered" =>
        LET tags == fnResult.positions
            n == Len(tags)
        IN  /\ n = 1 => tags = <<"single">>
            /\ n >= 2 =>
                  \A i \in 1..n :
                      tags[i] = IF i = 1 THEN "first" ELSE IF i = n THEN "last" ELSE "middle"

\* C16 as stated: in a Button.tsx group of two or more buttons, whatever the
\* shape and the variant, the first button rounds its left corners only, the
\* last its right corners only, a middle one none; every button but the last
\* has the right separator border, the last has not.
C16_GroupedCorners ==
    (pc = "rendered" /\ fnInputs.component = "Button.tsx" /\ Len(fnResult.classes) >= 2) =>
        LET n == Len(fnResult.classes)
            toks(i) == Range(Tokens(fnResult.classes[i].v))
            RoundedSides(i) ==
                {Stem(tok) : tok \in {x \in toks(i) :
                    /\ Stem(x) \in {"rounded", "rounded-l", "rounded-r", "rounded-t", "rounded-b"}
                    /\ x # Stem(x) \o "-none"}}
        IN  \A i \in 1..n :
                /\ RoundedSides(i) = IF i = 1 THEN {"rounded-l"}
                                     ELSE IF i = n THEN {"rounded-r"} ELSE {}
                /\ ("border-r" \in toks(i)) = (i < n)

\* C16 as amended: the same for every button whose variant is neither ghost
\* nor link; a ghost or link button keeps the full rounding of its shape and
\* has no separator border, whatever its position.
C16_GroupedCornersSolid ==
    (pc = "rendered" /\ fnInputs.component = "Button.tsx" /\ Len(fnResult.classes) >= 2) =>
        LET IsButton(child) == child.type = "Button"
            buttons == SelectSeq(fnInputs.children, IsButton)
            n == Len(fnResult.classes)
            toks(i) == Range(Tokens(fnResult.classes[i].v))
            RoundedSides(i) ==
                {Stem(tok) : tok \in {x \in toks(i) :
                    /\ Stem(x) \in {"rounded", "rounded-l", "rounded-r", "rounded-t", "rounded-b"}
                    /\ x # Stem(x) \o "-none"}}
        IN  \A i \in 1..n :
                IF buttons[i].variant \in {"ghost", "link"}
                THEN /\ RoundedSides(i) = {"rounded"}
                     /\ Range(Tokens(shapeStyles[buttons[i].shape].v)) \subseteq toks(i)
                     /\ "border-r" \notin toks(i)
                ELSE /\ RoundedSides(i) = IF i = 1 THEN {"rounded-l"}
                                          ELSE IF i = n THEN {"rounded-r"} ELSE {}
                     /\ ("border-r" \in toks(i)) = (i < n)

C16_Witness ==
    /\ pc = "rendered"
    /\ fnInputs.component = "Button.tsx"
    /\ Len(fnResult.classes) = 3
    /\ fnResult.positions = <<"first", "middle", "last">>
    /\ \A i \in 1..3 : fnInputs.children[i].type = "Button"
    /\ fnInputs.children[1].variant = "primary"
    /\ fnInputs.children[2].variant = "ghost"
    /\ fnInputs.children[3].variant = "secondary"
    /\ "rounded-l-xl" \in Range(Tokens(fnResult.classes[1].v))
    /\ "rounded-xl" \in Range(Tokens(fnResult.classes[2].v))
    /\ "rounded-r-full" \in Range(Tokens(fnResult.classes[3].v))



\* C17: getButtonClasses of the shared utilities, called for an enabled
\* button, raises no error; for a color that COLOR_MAPS does not hold it
\* returns what it returns for blue, and for a variant outside primary,
\* secondary, ghost and link what it returns for primary.
C17_SharedFallbacks ==
    (pc = "shared" /\ ~(fnInputs.disabled \/ fnInputs.loading)) =>
        /\ fnResult # TypeError
        /\ fnInputs.color \notin DOMAIN COLOR_MAPS =>
              fnResult = getButtonClasses(fnInputs.variant, "blue", "default", FALSE)
        /\ fnInputs.variant \notin {"primary", "secondary", "ghost", "link"} =>
              fnResult = getButtonClasses("primary", fnInputs.color, "default", FALSE)

\* C18: getColorClass, for a palette color and a variant string that is not a
\* key of its variants table, returns the className it returns for primary
\* with that color; for a color outside the palette it returns a style that
\* sets --btn-color to the color and a className whose every class is built
\* on var(--btn-color), except the white text of the filled variants.
C18_ColorClassFallbacks ==
    pc = "color" =>
        /\ (fnInputs.color \in Range(TAILWIND_COLORS)
            /\ fnInputs.variant \notin DOMAIN variants(fnInputs.color)) =>
              fnResult.className = getColorClass(fnInputs.color, "primary").className
        /\ fnInputs.color \notin Range(TAILWIND_COLORS) =>
              /\ fnResult.style = {<<"--btn-color", fnInputs.color>>}
              /\ fnResult.className.t = "str"
              /\ Range(Tokens(fnResult.className.v)) \ {"text-white"} # {}
              /\ Range(Tokens(fnResult.className.v)) \ {"text-white"} \subseteq
                    {"bg-[var(--btn-color)]", "text-[var(--btn-color)]",
                     "border-[var(--btn-color)]", "decoration-[var(--btn-color)]",
                     "hover:bg-[var(--btn-color)]/10"}

\* C19: each self-contained getButtonClasses returns a class string, never an
\* error; for a color that is no key of its color map it returns what it
\* returns for blue with the same variant, and for a variant that is no key
\* of its variant map what it returns for primary.
C19_SelfContainedFallbacks ==
    pc \in {"card", "alertDialog", "part000"} =>
        LET classes(props) == IF pc = "card" THEN getButtonClassesCard(props)
                              ELSE IF pc = "alertDialog" THEN getButtonClassesAlertDialog(props)
                              ELSE getButtonClassesPart000(props)
            colorKeys == IF pc = "card" THEN DOMAIN colorMapCard
                         ELSE IF pc = "alertDialog" THEN DOMAIN colorMapAlertDialog
                         ELSE DOMAIN colorMapPart000
            variantKeys == IF pc = "part000" THEN DOMAIN variantMapPart000("blue")
                           ELSE DOMAIN variantMap(colorMapCard, "blue")
        IN  /\ fnResult.t = "str"
            /\ fnInputs.color \notin colorKeys =>
                  fnResult = classes([fnInputs EXCEPT !.color = "blue"])
            /\ fnInputs.variant \notin variantKeys =>
                  fnResult = classes([fnInputs EXCEPT !.variant = "primary"])

\* C20: in a part_001 group of two or more Buttons, horizontal or vertical,
\* whatever the radius: the first Button is rounded on its leading side only,
\* with the radius of the group, the last on its trailing side only, a middle
\* one nowhere, and no two adjacent Buttons both draw a border on the edge
\* they share.
C20_ContextGroupCorners ==
    (pc = "rendered" /\ fnInputs.component = "part_001" /\ Len(fnResult.classes) >= 2) =>
        LET n == Len(fnResult.classes)
            vertical == fnInputs.direction = "vertical"
            leading == IF vertical THEN "rounded-t" ELSE "rounded-l"
            trailing == IF vertical THEN "rounded-b" ELSE "rounded-r"
            suffix == IF fnInputs.radius \in DOMAIN ROUNDED_VALUES THEN fnInputs.radius
                      ELSE "[" \o fnInputs.radius \o "]"
            toks(i) == Range(Tokens(fnResult.classes[i].v))
            RoundedSides(i) ==
                {Stem(tok) : tok \in {x \in toks(i) :
                    /\ Stem(x) \in {"rounded", "rounded-l", "rounded-r", "rounded-t", "rounded-b"}
                    /\ x # Stem(x) \o "-none"}}
            HasWidth(i) == \E tok \in toks(i) : Stem(tok) = "border-w" /\ tok # "border-0"
            DrawsTrailing(i) ==
                HasWidth(i) /\ (IF vertical THEN "border-b-0" ELSE "border-r-0") \notin toks(i)
            DrawsLeading(i) == HasWidth(i)
        IN  /\ \A i \in 1..n :
                  /\ RoundedSides(i) \subseteq (IF i = 1 THEN {leading}
                                                ELSE IF i = n THEN {trailing} ELSE {})
                  /\ i = 1 => (leading \o "-" \o suffix) \in toks(i)
                  /\ i = n => (trailing \o "-" \o suffix) \in toks(i)
            /\ \A i \in 1..(n - 1) : ~(DrawsTrailing(i) /\ DrawsLeading(i + 1))


\* C21: a prop-positioned Button of part_001 whose caller passes no rounding
\* class: at position middle no corner is rounded; at position left the two
\* corners of the outer side (left, or top when vertical) carry the configured
\* radius and the two corners facing the neighbour carry none; right is the
\* mirror image.
C21_PositionedCorners ==
    (pc = "rendered" /\ fnInputs.component = "part_001 prop"
     /\ fnInputs.groupPosition # "" /\ fnInputs.className # str(<<"rounded-full">>)) =>
        LET toks == Range(Tokens(fnResult.element.className.v))
            vertical == fnInputs.groupDirection = "vertical"
            radius == IF fnInputs.radius \in DOMAIN ROUNDED_VALUES THEN fnInputs.radius
                      ELSE "[" \o fnInputs.radius \o "]"
            Sides(corner) == {"rounded-" \o side : side \in {corner[1], corner[2]}}
            \* the radius of a corner: a side class wins over the class for all corners
            CornerRadius(corner) ==
                LET sided == {tok \in toks : Stem(tok) \in Sides(corner)}
                    all == {tok \in toks : Stem(tok) = "rounded"}
                IN  IF sided # {}
                    THEN {radiusSuffix("rounded-" \o x) :
                             x \in {y \in RadiusValues :
                                      \E side \in Sides(corner) : (side \o "-" \o y) \in sided}}
                    ELSE IF all # {} THEN {radiusSuffix(tok) : tok \in all}
                    ELSE {"none"}
            Corners == {<<"t", "l">>, <<"t", "r">>, <<"b", "l">>, <<"b", "r">>}
            outer == IF fnInputs.groupPosition = "left"
                     THEN (IF vertical THEN "t" ELSE "l")
                     ELSE (IF vertical THEN "b" ELSE "r")
            IsOuter(corner) == outer \in {corner[1], corner[2]}
        IN  \A corner \in Corners :
                CornerRadius(corner) =
                    IF fnInputs.groupPosition # "middle" /\ IsOuter(corner)
                    THEN {radius} ELSE {"none"}


\* C26: a click on the element rendered by the Button of Button.tsx or of
\* part_000 with disabled or loading true never calls the onClick handler,
\* whether the element is a button or, with href, an anchor.
C26_DisabledNeverClicks ==
    (pc = "clicked" /\ fnInputs.component \in {"Button.tsx", "part_000"}
     /\ (fnInputs.disabled \/ fnInputs.loading)) =>
        fnResult.calls = 0

\* C27: a part_001 Button given preset loading and no disabled prop renders a
\* disabled element whose class string carries the disabled colours.
C27_LoadingPresetDisabled ==
    (pc = "rendered" /\ fnInputs.component \in {"part_001 prop", "part_001 context"}
     /\ fnInputs.preset = "loading" /\ ~fnInputs.disabled) =>
        /\ fnResult.element.tag = "button"
        /\ fnResult.element.disabled
        /\ "bg-neutral-200" \in Range(Tokens(fnResult.element.className.v))

\* C28: for the Buttons of Button.tsx, Card.tsx and part_001 (context-driven),
\* every token of the caller's className that belongs to a conflict group is
\* in the final class string and is the only token of its group there.
C28_CallerClassWins ==
    (pc = "rendered"
     /\ fnInputs.component \in {"Button.tsx", "Card.tsx", "part_001 context"}
     /\ fnInputs.className # undefined) =>
        LET final == Tokens(fnResult.element.className.v)
        IN  \A tok \in Range(Tokens(fnInputs.className.v)) :
                Recognized(tok) =>
                    /\ tok \in Range(final)
                    /\ \A i \in 1..Len(final) :
                          CategoryKey(final[i]) = CategoryKey(tok) => final[i] = tok

\* C29: the Button rendered for an AlertDialog action with isDestructive true
\* carries the red background and no blue background, whatever variant and
\* color the action names.
C29_DestructiveIsRed ==
    (pc = "rendered" /\ fnInputs.component \in {"Card.tsx action", "AlertDialog.tsx action"}
     /\ fnInputs.isDestructive) =>
        LET toks == Range(Tokens(fnResult.element.className.v))
        IN  /\ "bg-red-600" \in toks
            /\ "bg-blue-600" \notin toks


\* C23: an animation-frame callback that runs while the dialog is closed or
\* unmounted (it was scheduled at an open that has since been undone) leaves
\* document.activeElement where the close left it.
C23_StaleFrameKeepsFocus ==
    [][(~Attached(mounted, isOpen) /\ last'.type = "raf") =>
           activeElement' = activeElement]_vars

C23_Witness ==
    /\ last.type = "raf"
    /\ mounted /\ ~isOpen
    /\ openFocus = "trigger"
    /\ activeElement = "trigger"
    /\ Len(actions) > 0

\* C24: a re-render of the open dialog, with the same or a new onClose
\* function, leaves document.activeElement unchanged.
C24_ReRenderKeepsFocus ==
    [][(Attached(mounted, isOpen) /\ last'.type = "rerender") =>
           activeElement' = activeElement]_vars

\* C30: a click on the backdrop itself calls onClose once, a click on the
\* close button calls it once, a click on any other element of the panel does
\* not call it; no click calls it twice.
C30_ClickClosesOnce ==
    last.type = "click" =>
        last.calls = IF last.from \in {"backdrop", "close"} THEN 1 ELSE 0

C30_Witness ==
    /\ last.type = "click"
    /\ last.from = "close"
    /\ last.calls = 1


\* C22: for every mounted Button whose observer holds no undelivered
\* mutation record, darkMode equals whether the document root carries the
\* dark class, and its dual-source icon shows the dark source exactly when the
\* root is dark, the other source when the preferred one is missing.
C22_DarkModeTracksRoot ==
    \A b \in Buttons :
        (buttonPhase[b] = "mounted" /\ b \notin notified) =>
            /\ darkMode[b] = ("dark" \in rootClasses)
            /\ renderIcon(icon[b], darkMode[b]) =
                  IF "dark" \in rootClasses
                  THEN (IF icon[b].dark # "" THEN icon[b].dark ELSE icon[b].light)
                  ELSE (IF icon[b].light # "" THEN icon[b].light ELSE icon[b].dark)

C22_Witness ==
    \E b \in Buttons :
        /\ buttonPhase[b] = "mounted" /\ b \notin notified
        /\ lastCheck[b] = "observer"
        /\ "dark" \in rootClasses /\ "wide" \notin rootClasses
        /\ darkMode[b]
        /\ icon[b] = [light |-> "sun.svg", dark |-> "moon.svg"]
        /\ renderIcon(icon[b], darkMode[b]) = "moon.svg"

\* C25: no 50 ms timer scheduled by checkTruncation of CardDescription ever
\* runs while the text element is missing.
C25_NoTimerOnMissingText == ~timerFault

====
